---- MODULE Spec2Model ----
(***************************************************************************)
(* Sales ledger (app/models/sales.py), its CRUD handlers                   *)
(* (app/api/v1/sales.py) and the aggregation engine                        *)
(* (app/core/analytics.py) of qsdpharmalytics.                             *)
(*                                                                         *)
(* Conventions                                                             *)
(*  - a nullable column / Optional field is a sequence of length at most   *)
(*    one: <<>> is NULL / None, <<v>> is the value v;                      *)
(*  - money is counted in whole currency units (the Float columns hold     *)
(*    the exact results of quantity * unit_price - discount);              *)
(*  - a datetime is a tick count, a date is a day count; a date compared   *)
(*    with a datetime column is the midnight tick of that day;             *)
(*  - the id of a sale is its index in the ledger (autoincrement key).     *)
(*  - products is the products table; db holds, for each client, the       *)
(*    storage session of its request and the position of the request.      *)
(*  - pass-through text columns nobody computes with (customer_type,       *)
(*    payment_method, campaign_id, sales_rep) are represented by notes;    *)
(*    created_at, which no handler reads or writes after the insert, is    *)
(*    left out.                                                            *)
(***************************************************************************)
EXTENDS Integers, Sequences, FiniteSets, TLC

VARIABLES sales, now, resp, sess, products, db

vars == <<sales, now, resp, sess, products, db>>

----------------------------------------------------------------------------
(* Bounds of the model *)

MaxNow == 1
MaxDay == 1
TicksPerDay == 2
DaysPerWeek == 2
DaysPerMonth == 3

(* Calendar constants of date_trunc / extract *)
MonthsPerQuarter == 3
MonthsPerYear == 12

Null == <<>>
Some(v) == <<v>>
IsNull(o) == o = <<>>
Val(o) == o[1]

(* Python's `x or 0` on an Optional number *)
OrZero(o) == IF IsNull(o) THEN 0 ELSE Val(o)

----------------------------------------------------------------------------
(* Request payloads *)

Codes == {"K1", "K2"}
Clients == {"c1", "c2"}
Days == 0..MaxDay

FinancialFields == {"quantity", "unit_price", "discount"}
NotNullFields == {"product_name", "product_category", "quantity", "unit_price"}

(* a SaleCreate body *)
Body(name, category, code, quantity, unit_price, discount, pharmacy, location, date) ==
    [product_name |-> name, product_category |-> category, product_code |-> code,
     quantity |-> quantity, unit_price |-> unit_price, discount |-> discount,
     pharmacy_name |-> pharmacy, pharmacy_location |-> location,
     sale_date |-> date, notes |-> Some("n1")]

(* SaleCreate bodies of the write specification: sale_date omitted and   *)
(* past the clock's bound; a null discount; a non-positive quantity and   *)
(* a non-positive unit price                                              *)
WriteBodies ==
    { Body("P1", "C1", "K1", 2, 3, Some(1), Some("A"), Some("L1"), Null),
      Body("P2", "C2", "K2", 1, 2, Null, Null, Null, Some(MaxNow + 1)),
      Body("P2", "C2", "K2", 0, 2, Some(0), Null, Null, Null),
      Body("P2", "C2", "K2", 1, 0, Some(0), Null, Null, Null) }

(* SaleUpdate bodies as sale_update.dict(exclude_unset=True): a function   *)
(* from the fields the request set to their (Optional) values              *)
WriteUpdates ==
    { [notes |-> Some("n2")],
      [unit_price |-> Some(5)],
      [discount |-> Null],
      [quantity |-> Some(0)],
      [quantity |-> Null],
      [product_name |-> Null],
      << >> }

(* bodies of the life-cycle specification *)
LifeBodies ==
    { Body("P1", "C1", "K1", 2, 3, Some(1), Some("A"), Some("L1"), Null),
      Body("P2", "C2", "K2", 1, 2, Null, Null, Null, Some(0)) }

LifeUpdates ==
    { [notes |-> Some("n2")],
      [quantity |-> Some(3)],
      [product_name |-> Null] }

----------------------------------------------------------------------------
(* Ledger *)

NoResp == [op |-> "none", status |-> 0, sale_id |-> 0]
Reply(op, status, id) == [op |-> op, status |-> status, sale_id |-> id]

IdleSess == [pc |-> "idle", sale_id |-> 0, loaded |-> << >>, payload |-> << >>]

(* a client with no request in progress: no session, nothing pending *)
DbIdle == [pc |-> "idle", open |-> FALSE, dep |-> "none", op |-> "none",
           product |-> << >>, error |-> << >>, responded |-> FALSE]

(* total_price = (quantity * unit_price) - (discount or 0) *)
TotalPrice(quantity, unit_price, discount) ==
    (quantity * unit_price) - OrZero(discount)

(* FindActive without the filter on is_active *)
FindAny(ledger, sale_id) ==
    IF sale_id \in DOMAIN ledger THEN Some(ledger[sale_id]) ELSE Null

(* db.query(Sale).filter(Sale.id == sale_id, Sale.is_active == True).first() *)
FindActive(ledger, sale_id) ==
    IF sale_id \in DOMAIN ledger /\ ledger[sale_id].is_active
    THEN Some(ledger[sale_id]) ELSE Null

Init ==
    /\ sales = << >>
    /\ now = 0
    /\ resp = NoResp
    /\ sess = [c \in Clients |-> IdleSess]
    /\ products = << >>
    /\ db = [c \in Clients |-> DbIdle]

(* the wall clock advances between requests *)
Tick ==
    /\ now < MaxNow
    /\ now' = now + 1
    /\ UNCHANGED <<sales, resp, sess, products, db>>

(* SaleCreate validators: quantity_must_be_positive, price_must_be_positive *)
SaleCreateValid(body) == body.quantity > 0 /\ body.unit_price > 0

(* the row create_sale builds *)
NewSale(body) ==
    [product_name      |-> Some(body.product_name),
     product_category  |-> Some(body.product_category),
     product_code      |-> Some(body.product_code),
     quantity          |-> Some(body.quantity),
     unit_price        |-> Some(body.unit_price),
     total_price       |-> TotalPrice(body.quantity, body.unit_price, body.discount),
     discount          |-> body.discount,
     pharmacy_name     |-> body.pharmacy_name,
     pharmacy_location |-> body.pharmacy_location,
     sale_date         |-> IF IsNull(body.sale_date) THEN now ELSE Val(body.sale_date),
     notes             |-> body.notes,
     is_active         |-> TRUE,
     updated_at        |-> now]

(* Column(String(50), unique=True) on Sale.product_code *)
CodeTaken(ledger, code) ==
    \E i \in DOMAIN ledger : ledger[i].product_code = Some(code)

CreateSale(body) ==
    /\ IF ~SaleCreateValid(body)
       THEN /\ resp' = Reply("create_sale", 422, 0)
            /\ UNCHANGED sales
       ELSE IF CodeTaken(sales, body.product_code)
       THEN /\ resp' = Reply("create_sale", 500, 0)
            /\ UNCHANGED sales
       ELSE /\ sales' = Append(sales, NewSale(body))
            /\ resp' = Reply("create_sale", 200, Len(sales) + 1)
    /\ UNCHANGED <<now, sess, products, db>>

----------------------------------------------------------------------------
(* update_sale *)

(* for field, value in update_data.items(): setattr(sale, field, value) *)
SetAttrs(obj, update_data) ==
    [f \in DOMAIN obj |-> IF f \in DOMAIN update_data THEN update_data[f] ELSE obj[f]]

(* quantity * unit_price raises TypeError when either operand is None *)
RecomputeRaises(obj, update_data) ==
    /\ DOMAIN update_data \cap FinancialFields # {}
    /\ (IsNull(obj.quantity) \/ IsNull(obj.unit_price))

(* Recompute, taking the discount from the request instead of the sale *)
RecomputeRequestDiscount(obj, update_data) ==
    IF DOMAIN update_data \cap FinancialFields # {}
    THEN [obj EXCEPT !.total_price =
              (Val(obj.quantity) * Val(obj.unit_price))
              - (IF "discount" \in DOMAIN update_data THEN OrZero(update_data.discount) ELSE 0)]
    ELSE obj

(* Recompute without the guard on the financial fields, as gross amount *)
RecomputeUnguarded(obj, update_data) ==
    IF IsNull(obj.quantity) \/ IsNull(obj.unit_price) THEN obj
    ELSE [obj EXCEPT !.total_price = Val(obj.quantity) * Val(obj.unit_price)]

(* if any(field in update_data ...): sale.total_price = ... *)
Recompute(obj, update_data) ==
    IF DOMAIN update_data \cap FinancialFields # {}
    THEN [obj EXCEPT !.total_price =
              TotalPrice(Val(obj.quantity), Val(obj.unit_price), obj.discount)]
    ELSE obj

(* the object update_sale holds when it reaches db.commit() *)
UpdatedObject(loaded, update_data) ==
    [Recompute(SetAttrs(loaded, update_data), update_data) EXCEPT !.updated_at = now]

(* the columns the unit of work writes: attributes whose value differs    *)
(* from the value the session loaded                                      *)
DirtyColumns(loaded, obj) == {f \in DOMAIN obj : obj[f] # loaded[f]}

(* nullable=False columns reject NULL at flush (IntegrityError) *)
FlushRaises(loaded, obj) ==
    \E f \in DirtyColumns(loaded, obj) \cap NotNullFields : IsNull(obj[f])

(* UPDATE sales SET <dirty columns> WHERE sales.id = :id *)
Flush(dbrow, loaded, obj) ==
    [f \in DOMAIN dbrow |-> IF f \in DirtyColumns(loaded, obj) THEN obj[f] ELSE dbrow[f]]

UpdateSale(sale_id, update_data) ==
    /\ LET found == FindActive(sales, sale_id) IN
       IF IsNull(found)
       THEN /\ resp' = Reply("update_sale", 404, sale_id)
            /\ UNCHANGED sales
       ELSE LET loaded == Val(found)
                obj == UpdatedObject(loaded, update_data) IN
            IF RecomputeRaises(SetAttrs(loaded, update_data), update_data)
               \/ FlushRaises(loaded, obj)
            THEN /\ resp' = Reply("update_sale", 500, sale_id)
                 /\ UNCHANGED sales
            ELSE /\ sales' = [sales EXCEPT ![sale_id] = Flush(sales[sale_id], loaded, obj)]
                 /\ resp' = Reply("update_sale", 200, sale_id)
    /\ UNCHANGED <<now, sess, products, db>>

----------------------------------------------------------------------------
(* delete_sale, get_sale *)

(* DeleteSale as a physical DELETE of the row *)
DeleteSaleHard(sale_id) ==
    /\ LET found == FindActive(sales, sale_id) IN
       IF IsNull(found)
       THEN /\ resp' = Reply("delete_sale", 404, sale_id)
            /\ UNCHANGED sales
       ELSE /\ sales' = SubSeq(sales, 1, sale_id - 1) \o SubSeq(sales, sale_id + 1, Len(sales))
            /\ resp' = Reply("delete_sale", 200, sale_id)
    /\ UNCHANGED <<now, sess, products, db>>

DeleteSale(sale_id) ==
    /\ LET found == FindActive(sales, sale_id) IN
       IF IsNull(found)
       THEN /\ resp' = Reply("delete_sale", 404, sale_id)
            /\ UNCHANGED sales
       ELSE /\ sales' = [sales EXCEPT ![sale_id] =
                            [@ EXCEPT !.is_active = FALSE, !.updated_at = now]]
            /\ resp' = Reply("delete_sale", 200, sale_id)
    /\ UNCHANGED <<now, sess, products, db>>

GetSale(sale_id) ==
    /\ resp' = Reply("get_sale", IF IsNull(FindActive(sales, sale_id)) THEN 404 ELSE 200, sale_id)
    /\ UNCHANGED <<sales, now, sess, products, db>>

(* ids a request may name: every row of the ledger and one id past it *)
SaleIds == 1..(Cardinality(Codes) + 1)

----------------------------------------------------------------------------
(* update_sale as two requests interleave it: each request runs in its    *)
(* own session; the SELECT of one and the UPDATE ... COMMIT of the same    *)
(* request are separate statements, and statements of another request may  *)
(* run between them.                                                       *)

(* sale = db.query(Sale).filter(...).first(); 404 when absent *)
UpdateLoad(c, sale_id, update_data) ==
    /\ sess[c].pc = "idle"
    /\ LET found == FindActive(sales, sale_id) IN
       IF IsNull(found)
       THEN /\ resp' = Reply("update_sale", 404, sale_id)
            /\ UNCHANGED sess
       ELSE /\ sess' = [sess EXCEPT ![c] = [pc |-> "loaded", sale_id |-> sale_id,
                                             loaded |-> Val(found), payload |-> update_data]]
            /\ UNCHANGED resp
    /\ UNCHANGED <<sales, now, products, db>>

(* setattr ..., recompute, updated_at, db.commit() *)
UpdateCommit(c) ==
    /\ sess[c].pc = "loaded"
    /\ LET sale_id == sess[c].sale_id
           loaded == sess[c].loaded
           update_data == sess[c].payload
           obj == UpdatedObject(loaded, update_data) IN
       IF RecomputeRaises(SetAttrs(loaded, update_data), update_data)
          \/ FlushRaises(loaded, obj)
       THEN /\ resp' = Reply("update_sale", 500, sale_id)
            /\ UNCHANGED sales
       ELSE /\ sales' = [sales EXCEPT ![sale_id] = Flush(sales[sale_id], loaded, obj)]
            /\ resp' = Reply("update_sale", 200, sale_id)
    /\ sess' = [sess EXCEPT ![c] = IdleSess]
    /\ UNCHANGED <<now, products, db>>

ConcBodies ==
    { Body("P1", "C1", "K1", 2, 3, Some(1), Some("A"), Some("L1"), Null) }

ConcUpdates ==
    { [quantity |-> Some(3)],
      [unit_price |-> Some(5)],
      [notes |-> Some("n2")] }

----------------------------------------------------------------------------
(* Aggregation engine: SQL aggregates *)

RECURSIVE SumFn(_, _)
(* the sum of f over the set S of its domain *)
SumFn(f, S) ==
    IF S = {} THEN 0
    ELSE LET x == CHOOSE x \in S : TRUE IN f[x] + SumFn(f, S \ {x})

RECURSIVE SortAsc(_, _)
(* the elements of S in non-decreasing order of key; the order among      *)
(* equal keys is one of those the database may return                     *)
SortAsc(key, S) ==
    IF S = {} THEN << >>
    ELSE LET x == CHOOSE x \in S : \A y \in S : key[x] <= key[y]
         IN <<x>> \o SortAsc(key, S \ {x})

RECURSIVE SortDesc(_, _)
SortDesc(key, S) ==
    IF S = {} THEN << >>
    ELSE LET x == CHOOSE x \in S : \A y \in S : key[x] >= key[y]
         IN <<x>> \o SortDesc(key, S \ {x})

(* SUM(column) over the rows S: NULL when no row has a value *)
SqlSum(ledger, S, column) ==
    LET valued == {i \in S : ~IsNull(ledger[i][column])} IN
    IF valued = {} THEN Null
    ELSE Some(SumFn([i \in valued |-> Val(ledger[i][column])], valued))

(* SUM(total_price) *)
SqlSumTotal(ledger, S) ==
    IF S = {} THEN Null ELSE Some(SumFn([i \in S |-> ledger[i].total_price], S))

RECURSIVE Gcd(_, _)
Gcd(a, b) == IF b = 0 THEN a ELSE Gcd(b, a % b)

(* a float that is the quotient n / d of two integers, d > 0, in lowest   *)
(* terms                                                                  *)
Rat(n, d) ==
    LET g == Gcd(IF n < 0 THEN 0 - n ELSE n, d)
    IN [num |-> n \div g, den |-> d \div g]

(* float(AVG(total_price) or 0) *)
AvgTotalOrZero(ledger, S) ==
    IF S = {} THEN Rat(0, 1)
    ELSE Rat(SumFn([i \in S |-> ledger[i].total_price], S), Cardinality(S))

(* COUNT(DISTINCT column): NULLs are not counted *)
CountDistinct(ledger, S, column) ==
    Cardinality({ledger[i][column] : i \in S} \ {Null})

(* round(n / d, 0) for d > 0, ties to even *)
RoundDiv(n, d) ==
    LET q == n \div d
        r == n % d
    IN IF 2 * r < d THEN q
       ELSE IF 2 * r > d THEN q + 1
       ELSE IF q % 2 = 0 THEN q ELSE q + 1

(* a date bound of a query, compared with the DateTime column *)
Midnight(day) == day * TicksPerDay

(* func.date(Sale.sale_date) *)
DateOf(ts) == ts \div TicksPerDay

(* the filter of the range queries without the test on is_active *)
InRangeAnyStatus(row, start_date, end_date) ==
    /\ row.sale_date >= Midnight(start_date)
    /\ row.sale_date <= Midnight(end_date)

(* and_(Sale.sale_date >= start_date, Sale.sale_date <= end_date,         *)
(*      Sale.is_active == True)                                            *)
InRange(row, start_date, end_date) ==
    /\ row.sale_date >= Midnight(start_date)
    /\ row.sale_date <= Midnight(end_date)
    /\ row.is_active = TRUE

Matching(ledger, start_date, end_date) ==
    {i \in DOMAIN ledger : InRange(ledger[i], start_date, end_date)}

OkBody(body) == [status |-> 200, body |-> body]
Raised(error) == [status |-> 500, body |-> error]

(* the engines create_engine is configured for: SQLite by default,        *)
(* PostgreSQL when the POSTGRES_* settings are given. The queries are    *)
(* the same on both; where an engine answers them differently the answer *)
(* is either engine's                                                     *)
Backends == {"sqlite", "postgresql"}

----------------------------------------------------------------------------
(* get_performance_summary *)

(* the summary with the `or 0` of the return statement left out: float() *)
(* of the NULL that SUM and AVG give over no rows raises TypeError        *)
PerformanceSummaryNoDefault(ledger, start_date, end_date) ==
    LET S == Matching(ledger, start_date, end_date) IN
    IF S = {} THEN [error |-> "TypeError"]
    ELSE [total_revenue      |-> Val(SqlSumTotal(ledger, S)),
          total_quantity     |-> Val(SqlSum(ledger, S, "quantity")),
          total_transactions |-> Cardinality(S),
          avg_order_value    |-> AvgTotalOrZero(ledger, S),
          unique_products    |-> CountDistinct(ledger, S, "product_name"),
          unique_pharmacies  |-> CountDistinct(ledger, S, "pharmacy_name")]

PerformanceSummary(ledger, start_date, end_date) ==
    LET S == Matching(ledger, start_date, end_date) IN
    [total_revenue      |-> OrZero(SqlSumTotal(ledger, S)),
     total_quantity     |-> OrZero(SqlSum(ledger, S, "quantity")),
     total_transactions |-> Cardinality(S),
     avg_order_value    |-> AvgTotalOrZero(ledger, S),
     unique_products    |-> CountDistinct(ledger, S, "product_name"),
     unique_pharmacies  |-> CountDistinct(ledger, S, "pharmacy_name")]

----------------------------------------------------------------------------
(* get_sales_performance *)

DaysPerQuarter == DaysPerMonth * MonthsPerQuarter
DaysPerYear == DaysPerMonth * MonthsPerYear

(* the first day of the bucket of length n days that holds the tick ts *)
TruncTo(n, ts) == (DateOf(ts) \div n) * n

(* the date_group of get_sales_performance *)
PerformanceBucket(period, ts) ==
    IF period = "day" THEN DateOf(ts)
    ELSE IF period = "week" THEN TruncTo(DaysPerWeek, ts)
    ELSE IF period = "month" THEN TruncTo(DaysPerMonth, ts)
    ELSE IF period = "year" THEN TruncTo(DaysPerYear, ts)
    ELSE TruncTo(DaysPerMonth, ts)

(* get_sales_performance with its rows ordered by desc(date_group) *)
SalesPerformanceDescending(ledger, start_date, end_date, period) ==
    LET S == Matching(ledger, start_date, end_date)
        buckets == {PerformanceBucket(period, ledger[i].sale_date) : i \in S}
        ordered == SortDesc([b \in buckets |-> b], buckets)
        Rows(b) == {i \in S : PerformanceBucket(period, ledger[i].sale_date) = b}
    IN [k \in DOMAIN ordered |->
          [period          |-> ordered[k],
           revenue         |-> OrZero(SqlSumTotal(ledger, Rows(ordered[k]))),
           quantity        |-> OrZero(SqlSum(ledger, Rows(ordered[k]), "quantity")),
           transactions    |-> Cardinality(Rows(ordered[k])),
           avg_order_value |-> AvgTotalOrZero(ledger, Rows(ordered[k]))]]

SalesPerformance(ledger, start_date, end_date, period) ==
    LET S == Matching(ledger, start_date, end_date)
        buckets == {PerformanceBucket(period, ledger[i].sale_date) : i \in S}
        ordered == SortAsc([b \in buckets |-> b], buckets)
        Rows(b) == {i \in S : PerformanceBucket(period, ledger[i].sale_date) = b}
    IN [k \in DOMAIN ordered |->
          [period          |-> ordered[k],
           revenue         |-> OrZero(SqlSumTotal(ledger, Rows(ordered[k]))),
           quantity        |-> OrZero(SqlSum(ledger, Rows(ordered[k]), "quantity")),
           transactions    |-> Cardinality(Rows(ordered[k])),
           avg_order_value |-> AvgTotalOrZero(ledger, Rows(ordered[k]))]]

(* get_sales_performance on an engine: date_trunc is a function of        *)
(* PostgreSQL, and SQLite raises "no such function" for every period but  *)
(* day, which is grouped by date()                                        *)
SalesPerformanceOn(backend, ledger, start_date, end_date, period) ==
    IF period # "day" /\ backend = "sqlite" THEN Raised("OperationalError")
    ELSE OkBody(SalesPerformance(ledger, start_date, end_date, period))

----------------------------------------------------------------------------
(* get_market_share *)

(* group_field = {...}.get(group_by, Sale.product_category) *)
GroupField(group_by) ==
    IF group_by = "product" THEN "product_name"
    ELSE IF group_by = "category" THEN "product_category"
    ELSE IF group_by = "pharmacy" THEN "pharmacy_name"
    ELSE IF group_by = "location" THEN "pharmacy_location"
    ELSE "product_category"

(* the shares taken of the revenue of every active sale of the range,     *)
(* the sales without a value in the grouping column included              *)
MarketShareOfPeriodRevenue(ledger, start_date, end_date, group_by) ==
    LET column == GroupField(group_by)
        S == {i \in Matching(ledger, start_date, end_date) : ~IsNull(ledger[i][column])}
        segments == {Val(ledger[i][column]) : i \in S}
        Rows(g) == {i \in S : Val(ledger[i][column]) = g}
        revenue == [g \in segments |-> OrZero(SqlSumTotal(ledger, Rows(g)))]
        ordered == SortDesc(revenue, segments)
        total_revenue == OrZero(SqlSumTotal(ledger, Matching(ledger, start_date, end_date)))
    IN [k \in DOMAIN ordered |->
          [segment          |-> ordered[k],
           revenue          |-> revenue[ordered[k]],
           quantity         |-> OrZero(SqlSum(ledger, Rows(ordered[k]), "quantity")),
           transactions     |-> Cardinality(Rows(ordered[k])),
           market_share_pct |-> IF total_revenue > 0
                                THEN RoundDiv(revenue[ordered[k]] * 10000, total_revenue)
                                ELSE 0]]

MarketShare(ledger, start_date, end_date, group_by) ==
    LET column == GroupField(group_by)
        S == {i \in Matching(ledger, start_date, end_date) : ~IsNull(ledger[i][column])}
        segments == {Val(ledger[i][column]) : i \in S}
        Rows(g) == {i \in S : Val(ledger[i][column]) = g}
        revenue == [g \in segments |-> OrZero(SqlSumTotal(ledger, Rows(g)))]
        ordered == SortDesc(revenue, segments)
        nonzero == {g \in segments : revenue[g] # 0}
        total_revenue == SumFn(revenue, nonzero)
    IN [k \in DOMAIN ordered |->
          [segment          |-> ordered[k],
           revenue          |-> revenue[ordered[k]],
           quantity         |-> OrZero(SqlSum(ledger, Rows(ordered[k]), "quantity")),
           transactions     |-> Cardinality(Rows(ordered[k])),
           market_share_pct |-> IF total_revenue > 0
                                THEN RoundDiv(revenue[ordered[k]] * 10000, total_revenue)
                                ELSE 0]]

----------------------------------------------------------------------------
(* get_top_products *)

(* .limit(limit) is rendered as LIMIT with the number bound as it is: a   *)
(* negative LIMIT means no limit on SQLite                                *)
TopProducts(ledger, start_date, end_date, metric, limit) ==
    LET S == Matching(ledger, start_date, end_date)
        groups == {<<ledger[i].product_name, ledger[i].product_category>> : i \in S}
        Rows(g) == {i \in S : <<ledger[i].product_name, ledger[i].product_category>> = g}
        revenue == [g \in groups |-> OrZero(SqlSumTotal(ledger, Rows(g)))]
        quantity == [g \in groups |-> OrZero(SqlSum(ledger, Rows(g), "quantity"))]
        frequency == [g \in groups |-> Cardinality(Rows(g))]
        ordered == IF metric = "revenue" THEN SortDesc(revenue, groups)
                   ELSE IF metric = "quantity" THEN SortDesc(quantity, groups)
                   ELSE SortDesc(frequency, groups)
        limited == IF limit < 0 THEN ordered
                   ELSE SubSeq(ordered, 1, IF limit < Len(ordered) THEN limit ELSE Len(ordered))
    IN [k \in DOMAIN limited |->
          [product_name     |-> limited[k][1],
           product_category |-> limited[k][2],
           revenue          |-> revenue[limited[k]],
           quantity         |-> quantity[limited[k]],
           frequency        |-> frequency[limited[k]],
           avg_order_value  |-> AvgTotalOrZero(ledger, Rows(limited[k]))]]

(* get_top_products on an engine: PostgreSQL refuses a negative LIMIT     *)
TopProductsOn(backend, ledger, start_date, end_date, metric, limit) ==
    IF limit < 0 /\ backend = "postgresql" THEN Raised("DataError")
    ELSE OkBody(TopProducts(ledger, start_date, end_date, metric, limit))

----------------------------------------------------------------------------
(* get_customer_analysis *)

(* r >= np.percentile(revenues, p), by linear interpolation between the   *)
(* order statistics of the ascending sequence sorted                      *)
AtLeastPercentile(r, sorted, p) ==
    LET n == Len(sorted)
        k == ((n - 1) * p) \div 100
        rem == ((n - 1) * p) % 100
        low == sorted[k + 1]
        high == IF k + 2 <= n THEN sorted[k + 2] ELSE sorted[k + 1]
    IN 100 * r >= 100 * low + rem * (high - low)

CustomerAnalysis(ledger, start_date, end_date) ==
    LET S == {i \in Matching(ledger, start_date, end_date) : ~IsNull(ledger[i].pharmacy_name)}
        customers == {Val(ledger[i].pharmacy_name) : i \in S}
        Rows(g) == {i \in S : Val(ledger[i].pharmacy_name) = g}
        revenue == [g \in customers |-> OrZero(SqlSumTotal(ledger, Rows(g)))]
        ascending == SortAsc(revenue, customers)
        revenues == [k \in DOMAIN ascending |-> revenue[ascending[k]]]
        ordered == SortDesc(revenue, customers)
        LastOrder(g) == CHOOSE t \in {ledger[i].sale_date : i \in Rows(g)} :
                            \A i \in Rows(g) : ledger[i].sale_date <= t
    IN [total_customers |-> Cardinality(customers),
        segments |->
            IF customers # {}
            THEN [high_value   |-> Cardinality({g \in customers :
                                      AtLeastPercentile(revenue[g], revenues, 90)}),
                  medium_value |-> Cardinality({g \in customers :
                                      /\ AtLeastPercentile(revenue[g], revenues, 66)
                                      /\ ~AtLeastPercentile(revenue[g], revenues, 90)}),
                  low_value    |-> Cardinality({g \in customers :
                                      ~AtLeastPercentile(revenue[g], revenues, 66)})]
            ELSE [high_value |-> 0, medium_value |-> 0, low_value |-> 0],
        top_customers |->
            [k \in DOMAIN ordered |->
               [pharmacy_name   |-> ordered[k],
                total_revenue   |-> revenue[ordered[k]],
                total_quantity  |-> OrZero(SqlSum(ledger, Rows(ordered[k]), "quantity")),
                total_orders    |-> Cardinality(Rows(ordered[k])),
                avg_order_value |-> AvgTotalOrZero(ledger, Rows(ordered[k])),
                last_order_date |-> DateOf(LastOrder(ordered[k]))]],
        avg_customer_value |->
            IF customers # {}
            THEN Rat(SumFn(revenue, customers), Cardinality(customers))
            ELSE Rat(0, 1)]

----------------------------------------------------------------------------
(* get_revenue_analysis *)

(* the date_group of get_revenue_analysis *)
RevenueBucket(group_by, ts) ==
    IF group_by = "day" THEN DateOf(ts)
    ELSE IF group_by = "week" THEN TruncTo(DaysPerWeek, ts)
    ELSE IF group_by = "quarter" THEN TruncTo(DaysPerQuarter, ts)
    ELSE TruncTo(DaysPerMonth, ts)

(* result.total_discount / result.gross_revenue raises TypeError when the *)
(* bucket has a gross revenue and SUM(discount) is NULL                   *)
RevenueAnalysis(ledger, start_date, end_date, group_by) ==
    LET S == Matching(ledger, start_date, end_date)
        buckets == {RevenueBucket(group_by, ledger[i].sale_date) : i \in S}
        ordered == SortAsc([b \in buckets |-> b], buckets)
        Rows(b) == {i \in S : RevenueBucket(group_by, ledger[i].sale_date) = b}
        Gross(b) == SumFn([i \in Rows(b) |->
                              Val(ledger[i].quantity) * Val(ledger[i].unit_price)], Rows(b))
        Discount(b) == SqlSum(ledger, Rows(b), "discount")
    IN IF \E b \in buckets : Gross(b) # 0 /\ IsNull(Discount(b))
       THEN Raised("TypeError")
       ELSE OkBody([k \in DOMAIN ordered |->
              [period         |-> ordered[k],
               revenue        |-> OrZero(SqlSumTotal(ledger, Rows(ordered[k]))),
               gross_revenue  |-> Gross(ordered[k]),
               total_discount |-> OrZero(Discount(ordered[k])),
               transactions   |-> Cardinality(Rows(ordered[k])),
               discount_rate  |->
                   IF Gross(ordered[k]) # 0
                   THEN IF Gross(ordered[k]) > 0
                        THEN RoundDiv(Val(Discount(ordered[k])) * 10000, Gross(ordered[k]))
                        ELSE RoundDiv(0 - Val(Discount(ordered[k])) * 10000,
                                      0 - Gross(ordered[k]))
                   ELSE 0]])

(* get_revenue_analysis on an engine: every grouping but day calls        *)
(* date_trunc                                                             *)
RevenueAnalysisOn(backend, ledger, start_date, end_date, group_by) ==
    IF group_by # "day" /\ backend = "sqlite" THEN Raised("OperationalError")
    ELSE RevenueAnalysis(ledger, start_date, end_date, group_by)

----------------------------------------------------------------------------
(* calculate_growth_rate *)

(* the growth rate over max(first_half, 1), as the revenue insight of the *)
(* executive summary divides                                              *)
GrowthRateMaxBase(ledger, start_date, end_date) ==
    LET period_length == end_date - start_date
        mid_point == start_date + (period_length \div 2)
        first == {i \in DOMAIN ledger :
                    /\ ledger[i].sale_date >= Midnight(start_date)
                    /\ ledger[i].sale_date < Midnight(mid_point)
                    /\ ledger[i].is_active = TRUE}
        second == {i \in DOMAIN ledger :
                    /\ ledger[i].sale_date >= Midnight(mid_point)
                    /\ ledger[i].sale_date <= Midnight(end_date)
                    /\ ledger[i].is_active = TRUE}
        first_half == OrZero(SqlSumTotal(ledger, first))
        second_half == OrZero(SqlSumTotal(ledger, second))
        base == IF first_half > 1 THEN first_half ELSE 1
    IN [first_half_revenue  |-> first_half,
        second_half_revenue |-> second_half,
        growth_rate_pct     |-> RoundDiv((second_half - first_half) * 10000, base)]

GrowthRateOpenSecondHalf(ledger, start_date, end_date) ==
    LET period_length == end_date - start_date
        mid_point == start_date + (period_length \div 2)
        first == {i \in DOMAIN ledger :
                    /\ ledger[i].sale_date >= Midnight(start_date)
                    /\ ledger[i].sale_date < Midnight(mid_point)
                    /\ ledger[i].is_active = TRUE}
        second == {i \in DOMAIN ledger :
                    /\ ledger[i].sale_date > Midnight(mid_point)
                    /\ ledger[i].sale_date <= Midnight(end_date)
                    /\ ledger[i].is_active = TRUE}
        first_half == OrZero(SqlSumTotal(ledger, first))
        second_half == OrZero(SqlSumTotal(ledger, second))
    IN [first_half_revenue  |-> first_half,
        second_half_revenue |-> second_half,
        growth_rate_pct     |-> IF first_half > 0
                                THEN RoundDiv((second_half - first_half) * 10000, first_half)
                                ELSE 0]

GrowthRate(ledger, start_date, end_date) ==
    LET period_length == end_date - start_date
        mid_point == start_date + (period_length \div 2)
        first == {i \in DOMAIN ledger :
                    /\ ledger[i].sale_date >= Midnight(start_date)
                    /\ ledger[i].sale_date < Midnight(mid_point)
                    /\ ledger[i].is_active = TRUE}
        second == {i \in DOMAIN ledger :
                    /\ ledger[i].sale_date >= Midnight(mid_point)
                    /\ ledger[i].sale_date <= Midnight(end_date)
                    /\ ledger[i].is_active = TRUE}
        first_half == OrZero(SqlSumTotal(ledger, first))
        second_half == OrZero(SqlSumTotal(ledger, second))
    IN [first_half_revenue  |-> first_half,
        second_half_revenue |-> second_half,
        growth_rate_pct     |-> IF first_half > 0
                                THEN RoundDiv((second_half - first_half) * 10000, first_half)
                                ELSE 0]

----------------------------------------------------------------------------
(* get_seasonality_analysis *)

(* extract('dow', ...) and extract('month', ...) *)
Weekday(ts) == DateOf(ts) % DaysPerWeek
MonthOfYear(ts) == (DateOf(ts) \div DaysPerMonth) % MonthsPerYear

(* the two queries have no ORDER BY: their rows form a set *)
Seasonality(ledger, start_date, end_date) ==
    LET S == Matching(ledger, start_date, end_date) IN
    [by_weekday |->
        {[weekday |-> w,
          avg_revenue |-> AvgTotalOrZero(ledger, {i \in S : Weekday(ledger[i].sale_date) = w})] :
         w \in {Weekday(ledger[i].sale_date) : i \in S}},
     by_month |->
        {[month |-> m,
          avg_revenue |-> AvgTotalOrZero(ledger, {i \in S : MonthOfYear(ledger[i].sale_date) = m})] :
         m \in {MonthOfYear(ledger[i].sale_date) : i \in S}}]

----------------------------------------------------------------------------
(* get_sales: the listing *)

(* the filters of get_sales: is_active, and the date bounds when given *)
ListingFilter(row, start_date, end_date) ==
    /\ row.is_active = TRUE
    /\ IsNull(start_date) \/ row.sale_date >= Midnight(Val(start_date))
    /\ IsNull(end_date) \/ row.sale_date <= Midnight(Val(end_date))

(* page = (skip // limit) + 1 raises ZeroDivisionError for limit = 0 *)
SalesListing(ledger, skip, limit, start_date, end_date) ==
    LET S == {i \in DOMAIN ledger : ListingFilter(ledger[i], start_date, end_date)}
        ordered == SortDesc([i \in S |-> ledger[i].sale_date], S)
        last == IF skip + limit < Len(ordered) THEN skip + limit ELSE Len(ordered)
        page == SubSeq(ordered, skip + 1, last)
    IN IF limit = 0 THEN Raised("ZeroDivisionError")
       ELSE OkBody([sales    |-> [k \in DOMAIN page |-> ledger[page[k]]],
                    total    |-> Cardinality(S),
                    page     |-> (skip \div limit) + 1,
                    per_page |-> limit])

----------------------------------------------------------------------------
(* get_sales_trends, without a category filter *)

SalesTrends(ledger, start_date, end_date) ==
    LET S == Matching(ledger, start_date, end_date)
        dates == {DateOf(ledger[i].sale_date) : i \in S}
        ordered == SortAsc([d \in dates |-> d], dates)
        Rows(d) == {i \in S : DateOf(ledger[i].sale_date) = d}
    IN [k \in DOMAIN ordered |->
          [date     |-> ordered[k],
           revenue  |-> OrZero(SqlSumTotal(ledger, Rows(ordered[k]))),
           quantity |-> OrZero(SqlSum(ledger, Rows(ordered[k]), "quantity"))]]

----------------------------------------------------------------------------
(* compare_periods *)

(* calc_change with the direction taken from the sign of the current      *)
(* value when there is no previous value                                  *)
CalcChangeFromZero(current, previous) ==
    LET n == current.num * previous.den - previous.num * current.den
        d == previous.num * current.den
        sn == IF d < 0 THEN 0 - n ELSE n
        sd == IF d < 0 THEN 0 - d ELSE d
    IN IF previous.num = 0
       THEN [value |-> current,
             change_pct |-> IF current.num > 0 THEN 10000 ELSE 0,
             direction |-> IF current.num > 0 THEN "up" ELSE "neutral"]
       ELSE [value      |-> current,
             change_pct |-> RoundDiv(sn * 10000, sd),
             direction  |-> IF sn > 0 THEN "up" ELSE IF sn < 0 THEN "down" ELSE "neutral"]

(* calc_change on two floats given as quotients: (current - previous) /   *)
(* previous is n / d, brought to a positive denominator as sn / sd;       *)
(* change_pct is in hundredths of a percent                               *)
CalcChange(current, previous) ==
    LET n == current.num * previous.den - previous.num * current.den
        d == previous.num * current.den
        sn == IF d < 0 THEN 0 - n ELSE n
        sd == IF d < 0 THEN 0 - d ELSE d
    IN IF previous.num = 0
       THEN [value |-> current, change_pct |-> 0, direction |-> "neutral"]
       ELSE [value      |-> current,
             change_pct |-> RoundDiv(sn * 10000, sd),
             direction  |-> IF sn > 0 THEN "up" ELSE IF sn < 0 THEN "down" ELSE "neutral"]

ComparePeriods(current_summary, previous_summary) ==
    [revenue         |-> CalcChange(Rat(current_summary.total_revenue, 1),
                                    Rat(previous_summary.total_revenue, 1)),
     transactions    |-> CalcChange(Rat(current_summary.total_transactions, 1),
                                    Rat(previous_summary.total_transactions, 1)),
     avg_order_value |-> CalcChange(current_summary.avg_order_value,
                                    previous_summary.avg_order_value)]

----------------------------------------------------------------------------
(* ReportsService: the executive summary *)

(* seq[:n] and seq[-n:] *)
Take(seq, n) == SubSeq(seq, 1, IF n < Len(seq) THEN n ELSE Len(seq))
LastN(seq, n) == SubSeq(seq, IF Len(seq) > n THEN Len(seq) - n + 1 ELSE 1, Len(seq))

(* an insight text: the rule that wrote it and the number formatted into  *)
(* it with one decimal, in tenths (0 for a text without a number)         *)
Insight(kind, tenths) == [kind |-> kind, tenths |-> tenths]

(* n / d rounded, for a denominator of either sign *)
SignedRoundDiv(n, d) == IF d < 0 THEN RoundDiv(0 - n, 0 - d) ELSE RoundDiv(n, d)

(* the revenue insight with the upper rule taken from 10% inclusive *)
RevenueGrowthInsightInclusive(current, previous) ==
    LET diff == current.total_revenue - previous.total_revenue
        base == IF previous.total_revenue > 1 THEN previous.total_revenue ELSE 1
    IN IF diff * 100 >= 10 * base
       THEN Insight("excellent_growth", RoundDiv(diff * 1000, base))
       ELSE IF diff * 100 > 0
            THEN Insight("positive_growth", RoundDiv(diff * 1000, base))
            ELSE Insight("revenue_declining", RoundDiv(diff * 1000, base))

(* revenue_growth = (current - previous) / max(previous, 1) * 100 and the *)
(* text chosen by it                                                      *)
RevenueGrowthInsight(current, previous) ==
    LET diff == current.total_revenue - previous.total_revenue
        base == IF previous.total_revenue > 1 THEN previous.total_revenue ELSE 1
    IN IF diff * 100 > 10 * base
       THEN Insight("excellent_growth", RoundDiv(diff * 1000, base))
       ELSE IF diff * 100 > 0
            THEN Insight("positive_growth", RoundDiv(diff * 1000, base))
            ELSE Insight("revenue_declining", RoundDiv(diff * 1000, base))

(* sum([p["revenue"] for p in top_products[:5]]) *)
TopFiveRevenue(top_products) ==
    LET top == Take(top_products, 5)
    IN SumFn([k \in DOMAIN top |-> top[k].revenue], DOMAIN top)

(* concentration = top_5_revenue / total_revenue * 100, for a total       *)
(* revenue other than 0, and the text chosen by it                        *)
ConcentrationInsight(current, top_products) ==
    LET top_5_revenue == TopFiveRevenue(top_products)
        total_revenue == current.total_revenue
        Above(pct) == IF total_revenue > 0 THEN top_5_revenue * 100 > pct * total_revenue
                      ELSE top_5_revenue * 100 < pct * total_revenue
        Below(pct) == IF total_revenue > 0 THEN top_5_revenue * 100 < pct * total_revenue
                      ELSE top_5_revenue * 100 > pct * total_revenue
        tenths == SignedRoundDiv(top_5_revenue * 1000, total_revenue)
    IN IF Above(80) THEN <<Insight("high_concentration", tenths)>>
       ELSE IF Below(50) THEN <<Insight("well_distributed", tenths)>>
       ELSE << >>

(* avg_order_current > avg_order_previous * 1.05, < avg_order_previous * 0.95 *)
AvgOrderInsight(current, previous) ==
    LET a == current.avg_order_value
        b == previous.avg_order_value
    IN IF a.num * b.den * 100 > 105 * b.num * a.den THEN <<Insight("avg_order_growing", 0)>>
       ELSE IF a.num * b.den * 100 < 95 * b.num * a.den
            THEN <<Insight("avg_order_declining", 0)>>
            ELSE << >>

PortfolioInsight(current) ==
    IF current.unique_products > 50 THEN <<Insight("portfolio_diversified", 0)>>
    ELSE IF current.unique_products < 20 THEN <<Insight("portfolio_concentrated", 0)>>
    ELSE << >>

(* _generate_insights: the division by total_revenue raises               *)
(* ZeroDivisionError when there are top products and the revenue of the   *)
(* period is 0                                                            *)
GenerateInsights(current, previous, top_products, market_share) ==
    IF Len(top_products) > 0 /\ current.total_revenue = 0
    THEN Raised("ZeroDivisionError")
    ELSE OkBody(<<RevenueGrowthInsight(current, previous)>>
                \o (IF Len(top_products) > 0
                    THEN ConcentrationInsight(current, top_products) ELSE << >>)
                \o AvgOrderInsight(current, previous)
                \o PortfolioInsight(current))

(* _calculate_key_kpis *)
CalculateKeyKpis(current_summary, comparisons) ==
    [receita_total       |-> current_summary.total_revenue,
     crescimento_receita |-> comparisons.revenue.change_pct,
     ticket_medio        |-> current_summary.avg_order_value,
     total_transacoes    |-> current_summary.total_transactions,
     produtos_unicos     |-> current_summary.unique_products,
     farmacias_ativas    |-> current_summary.unique_pharmacies]

(* the range generate_executive_summary compares with *)
PreviousRange(start_date, end_date) ==
    LET period_length == end_date - start_date
    IN [prev_start |-> start_date - period_length, prev_end |-> start_date - 1]

(* generate_executive_summary at the clock reading generated_at *)
ExecutiveSummary(ledger, start_date, end_date, generated_at) ==
    LET prev == PreviousRange(start_date, end_date)
        current_summary == PerformanceSummary(ledger, start_date, end_date)
        current_trends == SalesTrends(ledger, start_date, end_date)
        top_products == TopProducts(ledger, start_date, end_date, "revenue", 10)
        market_share == MarketShare(ledger, start_date, end_date, "category")
        customer_analysis == CustomerAnalysis(ledger, start_date, end_date)
        prev_summary == PerformanceSummary(ledger, prev.prev_start, prev.prev_end)
        comparisons == ComparePeriods(current_summary, prev_summary)
        kpis == CalculateKeyKpis(current_summary, comparisons)
        insights == GenerateInsights(current_summary, prev_summary, top_products, market_share)
    IN IF insights.status # 200 THEN insights
       ELSE OkBody(
          [period |-> [current  |-> <<start_date, end_date>>,
                       previous |-> <<prev.prev_start, prev.prev_end>>],
           kpis |-> kpis,
           summary |-> current_summary,
           comparisons |-> comparisons,
           trends |-> LastN(current_trends, 30),
           top_products |-> Take(top_products, 5),
           market_share |-> Take(market_share, 5),
           customer_insights |->
               [total_customers    |-> customer_analysis.total_customers,
                top_customers      |-> Take(customer_analysis.top_customers, 3),
                segments           |-> customer_analysis.segments,
                avg_customer_value |-> customer_analysis.avg_customer_value],
           insights |-> insights.body,
           generated_at |-> generated_at])

----------------------------------------------------------------------------
(* ReportsService: the retention of customers *)

(* the shortest period _analyze_customer_retention analyses, in days *)
RetentionMinDays == 60

(* the distinct non-NULL pharmacy names of the active sales with           *)
(* from <= sale_date < to (strict) or from <= sale_date <= to              *)
HalfCustomers(ledger, from, to, strict) ==
    {ledger[i].pharmacy_name : i \in {j \in DOMAIN ledger :
        /\ ledger[j].sale_date >= Midnight(from)
        /\ IF strict THEN ledger[j].sale_date < Midnight(to)
                     ELSE ledger[j].sale_date <= Midnight(to)
        /\ ledger[j].is_active = TRUE
        /\ ~IsNull(ledger[j].pharmacy_name)}}

AnalyzeCustomerRetentionChurnOfSecond(ledger, start_date, end_date) ==
    LET period_length == end_date - start_date
        mid_point == start_date + (period_length \div 2)
        first_half_customers == HalfCustomers(ledger, start_date, mid_point, TRUE)
        second_half_customers == HalfCustomers(ledger, mid_point, end_date, FALSE)
        retained == first_half_customers \cap second_half_customers
        new_customers == second_half_customers \ first_half_customers
        churned == second_half_customers \ first_half_customers
        first_count == Cardinality(first_half_customers)
    IN IF period_length < RetentionMinDays
       THEN [error |-> "period too short"]
       ELSE [retention_rate     |-> Rat(Cardinality(retained) * 100,
                                        IF first_count > 1 THEN first_count ELSE 1),
             retained_customers |-> Cardinality(retained),
             new_customers      |-> Cardinality(new_customers),
             churned_customers  |-> Cardinality(churned),
             total_first_half   |-> first_count,
             total_second_half  |-> Cardinality(second_half_customers)]

(* _analyze_customer_retention; retention_rate is the float                *)
(* len(retained) / max(len(first_half_customers), 1) * 100 as a quotient   *)
AnalyzeCustomerRetention(ledger, start_date, end_date) ==
    LET period_length == end_date - start_date
        mid_point == start_date + (period_length \div 2)
        first_half_customers == HalfCustomers(ledger, start_date, mid_point, TRUE)
        second_half_customers == HalfCustomers(ledger, mid_point, end_date, FALSE)
        retained == first_half_customers \cap second_half_customers
        new_customers == second_half_customers \ first_half_customers
        churned == first_half_customers \ second_half_customers
        first_count == Cardinality(first_half_customers)
    IN IF period_length < RetentionMinDays
       THEN [error |-> "period too short"]
       ELSE [retention_rate     |-> Rat(Cardinality(retained) * 100,
                                        IF first_count > 1 THEN first_count ELSE 1),
             retained_customers |-> Cardinality(retained),
             new_customers      |-> Cardinality(new_customers),
             churned_customers  |-> Cardinality(churned),
             total_first_half   |-> first_count,
             total_second_half  |-> Cardinality(second_half_customers)]

----------------------------------------------------------------------------
(* Read requests: each answers from the ledger and writes nothing *)

ReadReply(op, args, result) ==
    [op |-> op, status |-> result.status, sale_id |-> 0, args |-> args, body |-> result.body]

(* GetPerformanceSummary writing back the rows it read with their NULL    *)
(* discount replaced by 0                                                 *)
GetPerformanceSummaryNormalising(start_date, end_date) ==
    /\ resp' = ReadReply("performance_summary", <<start_date, end_date>>,
                         OkBody(PerformanceSummary(sales, start_date, end_date)))
    /\ sales' = [i \in DOMAIN sales |->
                    IF InRange(sales[i], start_date, end_date)
                    THEN [sales[i] EXCEPT !.discount = Some(OrZero(@))] ELSE sales[i]]
    /\ UNCHANGED <<now, sess, products, db>>

GetPerformanceSummary(start_date, end_date) ==
    /\ resp' = ReadReply("performance_summary", <<start_date, end_date>>,
                         OkBody(PerformanceSummary(sales, start_date, end_date)))
    /\ UNCHANGED <<sales, now, sess, products, db>>

GetSalesPerformance(start_date, end_date, period) ==
    /\ \E backend \in Backends :
          resp' = ReadReply("sales_performance", <<start_date, end_date, period>>,
                      SalesPerformanceOn(backend, sales, start_date, end_date, period))
    /\ UNCHANGED <<sales, now, sess, products, db>>

GetMarketShare(start_date, end_date, group_by) ==
    /\ resp' = ReadReply("market_share", <<start_date, end_date, group_by>>,
                         OkBody(MarketShare(sales, start_date, end_date, group_by)))
    /\ UNCHANGED <<sales, now, sess, products, db>>

GetTopProducts(start_date, end_date, metric, limit) ==
    /\ \E backend \in Backends :
          resp' = ReadReply("top_products", <<start_date, end_date, metric, limit>>,
                      TopProductsOn(backend, sales, start_date, end_date, metric, limit))
    /\ UNCHANGED <<sales, now, sess, products, db>>

GetCustomerAnalysis(start_date, end_date) ==
    /\ resp' = ReadReply("customer_analysis", <<start_date, end_date>>,
                         OkBody(CustomerAnalysis(sales, start_date, end_date)))
    /\ UNCHANGED <<sales, now, sess, products, db>>

GetRevenueAnalysis(start_date, end_date, group_by) ==
    /\ \E backend \in Backends :
          resp' = ReadReply("revenue_analysis", <<start_date, end_date, group_by>>,
                      RevenueAnalysisOn(backend, sales, start_date, end_date, group_by))
    /\ UNCHANGED <<sales, now, sess, products, db>>

CalculateGrowthRate(start_date, end_date) ==
    /\ resp' = ReadReply("growth_rate", <<start_date, end_date>>,
                         OkBody(GrowthRate(sales, start_date, end_date)))
    /\ UNCHANGED <<sales, now, sess, products, db>>

GetSeasonalityAnalysis(start_date, end_date) ==
    /\ resp' = ReadReply("seasonality", <<start_date, end_date>>,
                         OkBody(Seasonality(sales, start_date, end_date)))
    /\ UNCHANGED <<sales, now, sess, products, db>>

GetSales(skip, limit, start_date, end_date) ==
    /\ resp' = ReadReply("get_sales", <<skip, limit, start_date, end_date>>,
                         SalesListing(sales, skip, limit, start_date, end_date))
    /\ UNCHANGED <<sales, now, sess, products, db>>

CustomerRetention(start_date, end_date) ==
    /\ resp' = ReadReply("customer_retention", <<start_date, end_date>>,
                         OkBody(AnalyzeCustomerRetention(sales, start_date, end_date)))
    /\ UNCHANGED <<sales, now, sess, products, db>>

GenerateExecutiveSummary(start_date, end_date) ==
    /\ resp' = ReadReply("executive_summary", <<start_date, end_date>>,
                         ExecutiveSummary(sales, start_date, end_date, now))
    /\ UNCHANGED <<sales, now, sess, products, db>>

(* bodies and parameters of the read specification *)
AggBodies ==
    { Body("P1", "C1", "K1", 2, 3, Some(1), Some("A"), Some("L1"), Some(0)),
      Body("P2", "C2", "K2", 1, 2, Null, Null, Null, Some(1)),
      Body("P1", "C1", "K2", 1, 2, Some(0), Some("B"), Some("L1"), Some(TicksPerDay)) }

AggUpdates == { [quantity |-> Some(3)] }
AggPeriods == {"day", "month"}
AggGroupBys == {"category", "pharmacy"}
AggMetrics == {"revenue", "frequency"}
AggLimits == {1}
RevenueGroupBys == {"day"}
ListSkips == {0, 1}
ListLimits == {0, 1}
ListStarts == {Null, Some(1)}

(* bodies and parameters of the report specification: revenues of 10, 11, *)
(* 0 and 2; an empty and a null pharmacy name; sales on the same day, on  *)
(* the next day and in the next month of the same quarter                 *)
RepBodies ==
    { Body("P1", "C1", "K1", 5, 2, Some(0), Some("A"), Some("L1"), Some(0)),
      Body("P2", "C2", "K2", 1, 11, Null, Some(""), Null, Some(TicksPerDay)),
      Body("P3", "C3", "K3", 1, 2, Some(2), Some("A"), Null, Some(DaysPerMonth * TicksPerDay)),
      Body("P3", "C3", "K3", 1, 2, Some(0), Null, Null, Some(1)) }

RepRanges == { <<0, 1>>, <<1, 2>>, <<0, DaysPerMonth>>, <<DaysPerMonth, DaysPerMonth>> }
PerfRanges == { <<0, 1>>, <<0, DaysPerMonth>> }
GrowthRanges == RepRanges \cup { <<1, 0>> }
RetentionHalf == RetentionMinDays \div 2
RetentionRanges ==
    { <<1 - RetentionHalf, 1 + RetentionHalf>>,
      <<DaysPerMonth - RetentionHalf, DaysPerMonth + RetentionHalf>>,
      <<0 - RetentionHalf, RetentionHalf>>,
      <<0, RetentionMinDays - 1>> }
TopRanges == { <<0, DaysPerMonth>> }
RepPeriods == {"day", "week", "month", "quarter", "year", "other"}
RepGroupBys == {"category", "pharmacy"}
RepMetrics == {"revenue", "quantity", "frequency", "other"}
RepLimits == {-1, 1, 2}

----------------------------------------------------------------------------
(* Specifications *)

(* create_sale and update_sale over the write payloads *)
NextWrite ==
    \/ Tick
    \/ \E body \in WriteBodies : CreateSale(body)
    \/ \E sale_id \in SaleIds, update_data \in WriteUpdates : UpdateSale(sale_id, update_data)

SpecWrite == Init /\ [][NextWrite]_vars

(* the whole life cycle of a sale *)
Next ==
    \/ Tick
    \/ \E body \in LifeBodies : CreateSale(body)
    \/ \E sale_id \in SaleIds, update_data \in LifeUpdates : UpdateSale(sale_id, update_data)
    \/ \E sale_id \in SaleIds : DeleteSale(sale_id)
    \/ \E sale_id \in SaleIds : GetSale(sale_id)

Spec == Init /\ [][Next]_vars

(* update_sale requests of two clients, statement by statement *)
NextConc ==
    \/ Tick
    \/ \E body \in ConcBodies : CreateSale(body)
    \/ \E c \in Clients, sale_id \in SaleIds, update_data \in ConcUpdates :
           UpdateLoad(c, sale_id, update_data)
    \/ \E c \in Clients : UpdateCommit(c)

SpecConc == Init /\ [][NextConc]_vars

(* the ledger under writes, read by the listing and the aggregations *)
NextAgg ==
    \/ \E body \in AggBodies : CreateSale(body)
    \/ \E sale_id \in SaleIds, update_data \in AggUpdates : UpdateSale(sale_id, update_data)
    \/ \E sale_id \in SaleIds : DeleteSale(sale_id)
    \/ \E sale_id \in SaleIds : GetSale(sale_id)
    \/ \E skip \in ListSkips, limit \in ListLimits, start_date \in ListStarts :
           GetSales(skip, limit, start_date, Null)
    \/ \E start_date \in Days, end_date \in Days :
           \/ GetPerformanceSummary(start_date, end_date)
           \/ \E period \in AggPeriods : GetSalesPerformance(start_date, end_date, period)
           \/ \E group_by \in AggGroupBys : GetMarketShare(start_date, end_date, group_by)
           \/ \E metric \in AggMetrics, limit \in AggLimits :
                  GetTopProducts(start_date, end_date, metric, limit)
           \/ GetCustomerAnalysis(start_date, end_date)
           \/ \E group_by \in RevenueGroupBys : GetRevenueAnalysis(start_date, end_date, group_by)
           \/ CalculateGrowthRate(start_date, end_date)
           \/ GetSeasonalityAnalysis(start_date, end_date)

SpecAgg == Init /\ [][NextAgg]_vars

(* the ledger under creations and deletions, read by the analytics and    *)
(* the executive summary                                                  *)
NextRep ==
    \/ \E body \in RepBodies : CreateSale(body)
    \/ \E sale_id \in SaleIds : DeleteSale(sale_id)
    \/ \E range \in PerfRanges, period \in RepPeriods :
           GetSalesPerformance(range[1], range[2], period)
    \/ \E range \in TopRanges, metric \in RepMetrics, limit \in RepLimits :
           GetTopProducts(range[1], range[2], metric, limit)
    \/ \E range \in RepRanges :
           \/ \E group_by \in RepGroupBys : GetMarketShare(range[1], range[2], group_by)
           \/ GenerateExecutiveSummary(range[1], range[2])
    \/ \E range \in GrowthRanges : CalculateGrowthRate(range[1], range[2])
    \/ \E range \in RetentionRanges : CustomerRetention(range[1], range[2])

SpecRep == Init /\ [][NextRep]_vars

----------------------------------------------------------------------------
(* The analytics endpoints: each resolves its date range, calls the        *)
(* service and answers; product_category of /trends is left out            *)

(* timedelta(days=...) of the default start of each endpoint *)
DefaultDays == 30
TrendsDefaultDays == 90
RevenueDefaultDays == 90

(* a query parameter refused by its Query(...) declaration *)
Unprocessable == [status |-> 422, body |-> "RequestValidationError"]

(* if not end_date: end_date = date.today()                                *)
(* if not start_date: start_date = end_date - timedelta(days=days)         *)
ResolveRange(start_date, end_date, today, days) ==
    LET end == IF IsNull(end_date) THEN today ELSE Val(end_date)
        start == IF IsNull(start_date) THEN end - days ELSE Val(start_date)
    IN [start |-> start, end |-> end]

(* f"{start_date} to {end_date}" *)
PeriodOf(r) == <<r.start, r.end>>

(* date.today() *)
Today == DateOf(now)

EndpointReply(op, start_date, end_date, params, result) ==
    ReadReply(op, <<start_date, end_date, Today>> \o params, result)

sales_performance_endpoint(start_date, end_date, period) ==
    /\ \E backend \in Backends :
        LET r == ResolveRange(start_date, end_date, Today, DefaultDays)
            performance == SalesPerformanceOn(backend, sales, r.start, r.end, period)
        IN resp' = EndpointReply("sales_performance", start_date, end_date, <<period>>,
              IF period \notin {"day", "week", "month", "year"} THEN Unprocessable
              ELSE IF performance.status # 200 THEN performance
              ELSE OkBody([period      |-> PeriodOf(r),
                           grouping    |-> period,
                           performance |-> performance.body,
                           summary     |-> PerformanceSummary(sales, r.start, r.end)]))
    /\ UNCHANGED <<sales, now, sess, products, db>>

market_share_endpoint(start_date, end_date, group_by) ==
    /\ LET r == ResolveRange(start_date, end_date, Today, DefaultDays)
           share == MarketShare(sales, r.start, r.end, group_by)
       IN resp' = EndpointReply("market_share", start_date, end_date, <<group_by>>,
              IF group_by \notin {"product", "category", "pharmacy", "location"}
              THEN Unprocessable
              ELSE OkBody([period         |-> PeriodOf(r),
                           group_by       |-> group_by,
                           market_share   |-> share,
                           top_performers |-> Take(share, 5)]))
    /\ UNCHANGED <<sales, now, sess, products, db>>

sales_trends_endpoint(start_date, end_date) ==
    /\ LET r == ResolveRange(start_date, end_date, Today, TrendsDefaultDays)
       IN resp' = EndpointReply("sales_trends", start_date, end_date, << >>,
              OkBody([period          |-> PeriodOf(r),
                      category_filter |-> Null,
                      trends          |-> SalesTrends(sales, r.start, r.end),
                      growth_rate     |-> GrowthRate(sales, r.start, r.end),
                      seasonality     |-> Seasonality(sales, r.start, r.end)]))
    /\ UNCHANGED <<sales, now, sess, products, db>>

top_products_endpoint(start_date, end_date, metric, limit) ==
    /\ \E backend \in Backends :
        LET r == ResolveRange(start_date, end_date, Today, DefaultDays)
            top == TopProductsOn(backend, sales, r.start, r.end, metric, limit)
        IN resp' = EndpointReply("top_products", start_date, end_date, <<metric, limit>>,
              IF metric \notin {"revenue", "quantity", "frequency"} \/ limit > 50
              THEN Unprocessable
              ELSE IF top.status # 200 THEN top
              ELSE OkBody([period       |-> PeriodOf(r),
                           metric       |-> metric,
                           limit        |-> limit,
                           top_products |-> top.body]))
    /\ UNCHANGED <<sales, now, sess, products, db>>

customer_analysis_endpoint(start_date, end_date) ==
    /\ LET r == ResolveRange(start_date, end_date, Today, DefaultDays)
           analysis == CustomerAnalysis(sales, r.start, r.end)
       IN resp' = EndpointReply("customer_analysis", start_date, end_date, << >>,
              OkBody([period            |-> PeriodOf(r),
                      customer_metrics  |-> analysis,
                      top_customers     |-> Take(analysis.top_customers, 10),
                      customer_segments |-> analysis.segments]))
    /\ UNCHANGED <<sales, now, sess, products, db>>

revenue_analysis_endpoint(start_date, end_date, group_by) ==
    /\ \E backend \in Backends :
        LET r == ResolveRange(start_date, end_date, Today, RevenueDefaultDays)
            revenue == RevenueAnalysisOn(backend, sales, r.start, r.end, group_by)
        IN resp' = EndpointReply("revenue_analysis", start_date, end_date, <<group_by>>,
              IF group_by \notin {"day", "week", "month", "quarter"} THEN Unprocessable
              ELSE IF revenue.status # 200 THEN revenue
              ELSE OkBody([period              |-> PeriodOf(r),
                           grouping            |-> group_by,
                           revenue_data        |-> revenue.body,
                           total_revenue       |->
                               SumFn([k \in DOMAIN revenue.body |-> revenue.body[k].revenue],
                                     DOMAIN revenue.body),
                           average_order_value |->
                               AvgTotalOrZero(sales, Matching(sales, r.start, r.end))]))
    /\ UNCHANGED <<sales, now, sess, products, db>>

(* previous_start = start_date - (end_date - start_date);                  *)
(* previous_end = start_date                                               *)
DashboardPrevious(r) == [start |-> r.start - (r.end - r.start), end |-> r.start]

dashboard_summary_endpoint(start_date, end_date) ==
    /\ LET r == ResolveRange(start_date, end_date, Today, DefaultDays)
           previous == DashboardPrevious(r)
           current_summary == PerformanceSummary(sales, r.start, r.end)
           previous_summary == PerformanceSummary(sales, previous.start, previous.end)
       IN resp' = EndpointReply("dashboard_summary", start_date, end_date, << >>,
              OkBody([current_period  |-> [start |-> r.start, end |-> r.end,
                                           summary |-> current_summary],
                      previous_period |-> [start |-> previous.start, end |-> previous.end,
                                           summary |-> previous_summary],
                      comparisons     |-> ComparePeriods(current_summary, previous_summary),
                      top_products    |-> TopProducts(sales, r.start, r.end, "revenue", 5),
                      recent_trends   |-> LastN(SalesTrends(sales, r.start, r.end), 7)]))
    /\ UNCHANGED <<sales, now, sess, products, db>>

(* bodies and parameters of the endpoint specification: sales at the       *)
(* midnight of day 0, on day 1 and 40 days back                            *)
EndBodies ==
    { Body("P1", "C1", "K1", 5, 2, Some(0), Some("A"), Some("L1"), Some(0)),
      Body("P2", "C2", "K2", 1, 3, Null, Some("B"), Null, Some(TicksPerDay)),
      Body("P3", "C1", "K3", 1, 7, Some(0), Some("A"), Null, Some(0 - 40 * TicksPerDay)) }

(* both dates omitted, the start omitted, both given, and a start after   *)
(* the end                                                                 *)
EndRanges == { <<Null, Null>>, <<Null, Some(1)>>, <<Some(0), Some(1)>>, <<Some(1), Some(0)>> }
EndPeriods == { "day", "other" }
EndGroupBys == { "category", "other" }
EndMetrics == { "revenue", "other" }
EndLimits == { 1, 51 }

NextEnd ==
    \/ \E body \in EndBodies : CreateSale(body)
    \/ \E range \in EndRanges :
          \/ \E period \in EndPeriods : sales_performance_endpoint(range[1], range[2], period)
          \/ \E group_by \in EndGroupBys : market_share_endpoint(range[1], range[2], group_by)
          \/ sales_trends_endpoint(range[1], range[2])
          \/ \E metric \in EndMetrics, limit \in EndLimits :
                 top_products_endpoint(range[1], range[2], metric, limit)
          \/ customer_analysis_endpoint(range[1], range[2])
          \/ \E group_by \in EndPeriods : revenue_analysis_endpoint(range[1], range[2], group_by)
          \/ dashboard_summary_endpoint(range[1], range[2])

SpecEnd == Init /\ [][NextEnd]_vars

----------------------------------------------------------------------------
(* get_db, the session of a request, and create_product, step by step:    *)
(* requests of several clients interleave between their statements         *)

(* the get_db of app/database.py (with an except clause) and the one of    *)
(* app/api/deps.py (try / finally alone)                                   *)
Deps == {"database", "deps"}

(* the status the caller gets for the error a request ends with *)
StatusOf(error) ==
    IF IsNull(error) THEN 200
    ELSE IF Val(error) = "HTTPException" THEN 400
    ELSE 500

(* db = SessionLocal(); try: yield db *)
GetDbYield(c, dep, op, product) ==
    /\ db[c].pc = "idle"
    /\ db' = [db EXCEPT ![c] = [pc |-> "handler", open |-> TRUE, dep |-> dep, op |-> op,
                                product |-> product, error |-> Null,
                                responded |-> FALSE]]
    /\ UNCHANGED <<sales, now, resp, sess, products>>

(* a row of the products table with the code, or with the name or code *)
ProductCodeTaken(table, code) == \E i \in DOMAIN table : table[i].code = code
ProductConflict(table, product) ==
    \E i \in DOMAIN table : table[i].code = product.code \/ table[i].name = product.name

(* existing = db.query(Product).filter(Product.code == product.code)       *)
(* .first(); if existing: raise HTTPException(status_code=400, ...)        *)
CreateProductCheck(c) ==
    /\ db[c].pc = "handler"
    /\ db[c].op = "create_product"
    /\ db' = [db EXCEPT ![c] =
                 IF ProductCodeTaken(products, Val(db[c].product).code)
                 THEN [@ EXCEPT !.pc = "raised", !.error = Some("HTTPException")]
                 ELSE [@ EXCEPT !.pc = "checked"]]
    /\ UNCHANGED <<sales, now, resp, sess, products>>

CreateProductCommitUnconstrained(c) ==
    /\ db[c].pc = "checked"
    /\ products' = Append(products, Val(db[c].product))
    /\ db' = [db EXCEPT ![c].pc = "returned"]
    /\ UNCHANGED <<sales, now, resp, sess>>

(* db.add(db_product); db.commit(); db.refresh(db_product): the unique     *)
(* indexes of name and code make the INSERT of a duplicate raise           *)
(* IntegrityError                                                          *)
CreateProductCommit(c) ==
    /\ db[c].pc = "checked"
    /\ IF ProductConflict(products, Val(db[c].product))
       THEN /\ db' = [db EXCEPT ![c].pc = "raised", ![c].error = Some("IntegrityError")]
            /\ UNCHANGED products
       ELSE /\ products' = Append(products, Val(db[c].product))
            /\ db' = [db EXCEPT ![c].pc = "returned"]
    /\ UNCHANGED <<sales, now, resp, sess>>

(* any other handler holding a session: it returns or it raises *)
HandlerEnds(c, raises) ==
    /\ db[c].pc = "handler"
    /\ db[c].op = "analytics"
    /\ db' = [db EXCEPT ![c] =
                 IF raises THEN [@ EXCEPT !.pc = "raised", !.error = Some("Exception")]
                 ELSE [@ EXCEPT !.pc = "returned"]]
    /\ UNCHANGED <<sales, now, resp, sess, products>>

(* except Exception as e: db.rollback(); logging.error(...); raise -- the  *)
(* clause of app/database.py; a rollback that fails raises its own error   *)
GetDbExcept(c) ==
    /\ db[c].pc = "raised"
    /\ db[c].dep = "database"
    /\ \E error \in {db[c].error, Some("OperationalError")} :
          db' = [db EXCEPT ![c].pc = "reraised", ![c].error = error]
    /\ UNCHANGED <<sales, now, resp, sess, products>>

(* where the generator stands when its finally clause is next *)
AtFinally(c) ==
    \/ db[c].pc \in {"returned", "reraised"}
    \/ db[c].pc = "raised" /\ db[c].dep = "deps"

GetDbFinallyUnlessRaised(c) ==
    /\ AtFinally(c)
    /\ db' = [db EXCEPT ![c].pc = "released", ![c].open = ~IsNull(db[c].error)]
    /\ UNCHANGED <<sales, now, resp, sess, products>>

(* finally: db.close() *)
GetDbFinally(c) ==
    /\ AtFinally(c)
    /\ db' = [db EXCEPT ![c].pc = "released", ![c].open = FALSE]
    /\ UNCHANGED <<sales, now, resp, sess, products>>

(* the answer of a handler that returned may leave before the exit code of *)
(* the dependency runs: the order is the framework's                       *)
RespondEarly(c) ==
    /\ db[c].pc = "returned"
    /\ ~db[c].responded
    /\ resp' = Reply(db[c].op, 200, 0)
    /\ db' = [db EXCEPT ![c].responded = TRUE]
    /\ UNCHANGED <<sales, now, sess, products>>

(* the request completes: the answer, or the error the generator re-raised, *)
(* reaches the caller                                                       *)
Complete(c) ==
    /\ db[c].pc = "released"
    /\ IF db[c].responded THEN UNCHANGED resp
       ELSE resp' = Reply(db[c].op, StatusOf(db[c].error), 0)
    /\ db' = [db EXCEPT ![c] = [DbIdle EXCEPT !.open = db[c].open]]
    /\ UNCHANGED <<sales, now, sess, products>>

(* ProductCreate bodies: a code twice, a name twice *)
Product(name, code) == [name |-> name, code |-> code, category |-> "C1"]
ProdBodies == { Product("P1", "K1"), Product("P2", "K1"), Product("P1", "K2") }

NextProd ==
    \/ \E c \in Clients, product \in ProdBodies :
           GetDbYield(c, "database", "create_product", Some(product))
    \/ \E c \in Clients : GetDbYield(c, "deps", "analytics", Null)
    \/ \E c \in Clients : CreateProductCheck(c)
    \/ \E c \in Clients : CreateProductCommit(c)
    \/ \E c \in Clients, raises \in BOOLEAN : HandlerEnds(c, raises)
    \/ \E c \in Clients : GetDbExcept(c)
    \/ \E c \in Clients : GetDbFinally(c)
    \/ \E c \in Clients : RespondEarly(c)
    \/ \E c \in Clients : Complete(c)

SpecProd == Init /\ [][NextProd]_vars

(* every step of a request in progress is eventually taken: the handler    *)
(* runs to its return or its raise, and the generator to its end           *)
RequestStep(c) ==
    \/ CreateProductCheck(c)
    \/ CreateProductCommit(c)
    \/ \E raises \in BOOLEAN : HandlerEnds(c, raises)
    \/ GetDbExcept(c)
    \/ GetDbFinally(c)
    \/ Complete(c)

FairSpecProd == SpecProd /\ \A c \in Clients : WF_vars(RequestStep(c))

----------------------------------------------------------------------------
(* Properties of the ledger *)

(* the total a row should carry: quantity x unit_price - discount, NULL as 0 *)
RowConsistent(row) ==
    /\ ~IsNull(row.quantity)
    /\ ~IsNull(row.unit_price)
    /\ row.total_price + (IF row.discount = Null THEN 0 ELSE row.discount[1])
           = row.quantity[1] * row.unit_price[1]

(* the value a field has after an update: the supplied one, else the old one *)
Supplied(row, update_data, f) ==
    IF f \in DOMAIN update_data THEN update_data[f] ELSE row[f]

(* C2: every sale row satisfies total_price = quantity x unit_price -      *)
(* discount (null discount as 0), and an update_sale that changes a        *)
(* financial field stores the total of the new values together with the    *)
(* existing values of the financial fields it did not change.              *)
C2_TotalConsistent ==
    /\ [](\A i \in DOMAIN sales : RowConsistent(sales[i]))
    /\ [][\A sale_id \in SaleIds, update_data \in WriteUpdates :
            (/\ resp' = Reply("update_sale", 200, sale_id)
             /\ DOMAIN update_data \cap FinancialFields # {}
             /\ UpdateSale(sale_id, update_data))
            => sales'[sale_id].total_price =
                  (Supplied(sales[sale_id], update_data, "quantity")[1]
                   * Supplied(sales[sale_id], update_data, "unit_price")[1])
                  - OrZero(Supplied(sales[sale_id], update_data, "discount"))]_vars

(* a sale whose unit price was updated carries the total recomputed with  *)
(* its existing quantity and discount                                     *)
C2_Witness ==
    /\ resp = Reply("update_sale", 200, 1)
    /\ Len(sales) >= 1
    /\ sales[1].quantity = Some(2)
    /\ sales[1].unit_price = Some(5)
    /\ sales[1].discount = Some(1)
    /\ sales[1].total_price = 9

(* C3 (as claimed): every sale row has quantity > 0 and unit_price > 0.    *)
C3_PositiveQuantityPrice ==
    \A i \in DOMAIN sales :
        /\ ~IsNull(sales[i].quantity) /\ Val(sales[i].quantity) > 0
        /\ ~IsNull(sales[i].unit_price) /\ Val(sales[i].unit_price) > 0

(* C4 (as claimed): once both update_sale requests have committed, the     *)
(* stored row satisfies total_price = quantity x unit_price - discount.    *)
C4_ConcurrentTotalConsistent ==
    (\A c \in Clients : sess[c].pc = "idle")
        => \A i \in DOMAIN sales : RowConsistent(sales[i])

C6_SoftDelete ==
    /\ [][DOMAIN sales \subseteq DOMAIN sales']_vars
    /\ [][\A sale_id \in SaleIds :
            (resp' = Reply("delete_sale", 200, sale_id) /\ DeleteSale(sale_id))
            => /\ DOMAIN sales' = DOMAIN sales
               /\ sales'[sale_id].is_active = FALSE
               /\ \A f \in DOMAIN sales[sale_id] \ {"is_active", "updated_at"} :
                      sales'[sale_id][f] = sales[sale_id][f]
               /\ \A j \in DOMAIN sales \ {sale_id} : sales'[j] = sales[j]]_vars

(* a sale of a two-row ledger has been soft-deleted *)
C6_Witness ==
    /\ resp.op = "delete_sale"
    /\ resp.status = 200
    /\ Len(sales) = 2
    /\ ~sales[resp.sale_id].is_active
    /\ sales[3 - resp.sale_id].is_active

(* C7: an update_sale whose payload has none of quantity, unit_price,      *)
(* discount leaves total_price, quantity, unit_price and discount of the   *)
(* sale unchanged and changes only the supplied fields and updated_at.     *)
C7_NonFinancialUpdate ==
    [][\A sale_id \in SaleIds, update_data \in WriteUpdates :
          (/\ resp'.op = "update_sale"
           /\ resp'.sale_id = sale_id
           /\ sale_id \in DOMAIN sales
           /\ DOMAIN update_data \cap FinancialFields = {}
           /\ UpdateSale(sale_id, update_data))
          => /\ DOMAIN sales' = DOMAIN sales
             /\ \A f \in {"total_price", "quantity", "unit_price", "discount"} :
                    sales'[sale_id][f] = sales[sale_id][f]
             /\ \A f \in DOMAIN sales[sale_id] \ (DOMAIN update_data \cup {"updated_at"}) :
                    sales'[sale_id][f] = sales[sale_id][f]
             /\ resp'.status = 200 =>
                    \A f \in DOMAIN update_data : sales'[sale_id][f] = update_data[f]
             /\ \A j \in DOMAIN sales \ {sale_id} : sales'[j] = sales[j]]_vars

(* a notes-only update has been applied to a sale with a discount *)
C7_Witness ==
    /\ resp = Reply("update_sale", 200, 1)
    /\ Len(sales) >= 1
    /\ sales[1].notes = Some("n2")
    /\ sales[1].updated_at = 1
    /\ sales[1].discount = Some(1)
    /\ sales[1].total_price = 5

(* C8 (as claimed): a create_sale that adds a row adds one whose sale_date *)
(* is not later than the time of the request.                              *)
C8_NoFutureSale ==
    [][\A body \in WriteBodies :
          (Len(sales') > Len(sales) /\ CreateSale(body))
          => sales'[Len(sales')].sale_date <= now]_vars

----------------------------------------------------------------------------
(* Properties of the read requests *)

(* the ledger with its soft-deleted rows physically removed *)
ActiveOnly(ledger) == SelectSeq(ledger, LAMBDA row : row.is_active)

Periods == {"day", "week", "month", "quarter", "year", "other"}
GroupBys == {"product", "category", "pharmacy", "location", "other"}
Metrics == {"revenue", "quantity", "frequency", "other"}
Limits == 0..2

ReadOps == {"performance_summary", "sales_performance", "market_share", "top_products",
            "customer_analysis", "revenue_analysis", "growth_rate", "seasonality",
            "get_sales"}

(* C1: a sale whose active flag is false contributes to no aggregation     *)
(* result, for any date range and parameter: each result equals the one    *)
(* computed on the ledger without its inactive rows; and it appears in no  *)
(* listing: get_sales returns and counts only active rows, get_sale        *)
(* answers only for an active row.                                         *)
C1_InactiveExcluded ==
    /\ \A start_date \in Days, end_date \in Days :
        LET active == ActiveOnly(sales) IN
        /\ PerformanceSummary(sales, start_date, end_date)
               = PerformanceSummary(active, start_date, end_date)
        /\ \A period \in Periods :
               SalesPerformance(sales, start_date, end_date, period)
                   = SalesPerformance(active, start_date, end_date, period)
        /\ \A metric \in Metrics, limit \in Limits :
               TopProducts(sales, start_date, end_date, metric, limit)
                   = TopProducts(active, start_date, end_date, metric, limit)
        /\ \A group_by \in GroupBys :
               MarketShare(sales, start_date, end_date, group_by)
                   = MarketShare(active, start_date, end_date, group_by)
        /\ CustomerAnalysis(sales, start_date, end_date)
               = CustomerAnalysis(active, start_date, end_date)
        /\ \A group_by \in Periods :
               RevenueAnalysis(sales, start_date, end_date, group_by)
                   = RevenueAnalysis(active, start_date, end_date, group_by)
        /\ GrowthRate(sales, start_date, end_date) = GrowthRate(active, start_date, end_date)
        /\ Seasonality(sales, start_date, end_date) = Seasonality(active, start_date, end_date)
    /\ (resp.op = "get_sales" /\ resp.status = 200) =>
        /\ \A k \in DOMAIN resp.body.sales : resp.body.sales[k].is_active
        /\ resp.body.total = Cardinality({i \in DOMAIN sales :
               /\ sales[i].is_active
               /\ IsNull(resp.args[3]) \/ sales[i].sale_date >= Midnight(Val(resp.args[3]))})
    /\ (resp.op = "get_sale" /\ resp.status = 200) =>
        (resp.sale_id \in DOMAIN sales /\ sales[resp.sale_id].is_active)

(* a summary was answered for a range that holds a soft-deleted sale and   *)
(* an active one                                                           *)
C1_Witness ==
    /\ resp.op = "performance_summary"
    /\ resp.body.total_transactions = 1
    /\ \E i \in DOMAIN sales :
          /\ ~sales[i].is_active
          /\ InRangeAnyStatus(sales[i], resp.args[1], resp.args[2])

(* C9: no aggregation call modifies the ledger, and performance_summary    *)
(* called again with the same range, with no write in between, returns     *)
(* the same result.                                                        *)
C9_ReadOnly ==
    /\ [][resp'.op \in ReadOps => sales' = sales]_vars
    /\ [][\A start_date \in Days, end_date \in Days :
            (/\ resp.op = "performance_summary"
             /\ resp.args = <<start_date, end_date>>
             /\ GetPerformanceSummary(start_date, end_date))
            => resp'.body = resp.body]_vars

(* a summary of a ledger of two sales was answered *)
C9_Witness ==
    /\ resp.op = "performance_summary"
    /\ Len(sales) = 2
    /\ resp.body.total_transactions = 2

ZeroSummary ==
    [total_revenue |-> 0, total_quantity |-> 0, total_transactions |-> 0,
     avg_order_value |-> [num |-> 0, den |-> 1],
     unique_products |-> 0, unique_pharmacies |-> 0]

(* no active sale has its sale date between the bounds of the range *)
NoActiveSaleIn(start_date, end_date) ==
    ~\E i \in DOMAIN sales :
        /\ sales[i].is_active
        /\ Midnight(start_date) <= sales[i].sale_date
        /\ sales[i].sale_date <= Midnight(end_date)

(* C10: for every ledger and every date range in which no active sale      *)
(* falls, performance_summary returns zero in all six fields and raises    *)
(* no error.                                                               *)
C10_EmptySummary ==
    /\ \A start_date \in Days, end_date \in Days :
          NoActiveSaleIn(start_date, end_date)
              => PerformanceSummary(sales, start_date, end_date) = ZeroSummary
    /\ (resp.op = "performance_summary" /\ NoActiveSaleIn(resp.args[1], resp.args[2]))
          => (resp.status = 200 /\ resp.body = ZeroSummary)

(* a summary was answered for a range whose only sale is soft-deleted *)
C10_Witness ==
    /\ resp.op = "performance_summary"
    /\ resp.args[1] <= resp.args[2]
    /\ NoActiveSaleIn(resp.args[1], resp.args[2])
    /\ \E i \in DOMAIN sales : InRangeAnyStatus(sales[i], resp.args[1], resp.args[2])
    /\ resp.body = ZeroSummary

----------------------------------------------------------------------------
(* Properties of the analytics results *)

Abs(n) == IF n < 0 THEN 0 - n ELSE n

(* the sum of a column of numbers over the rows of a result *)
SumOver(rows, column) == SumFn([k \in DOMAIN rows |-> rows[k][column]], DOMAIN rows)

(* C11: in every market_share result the market_share_pct of the returned  *)
(* segments sum to 100 within the error of rounding each to two decimals   *)
(* (half a hundredth for each row) when the revenue of the returned rows   *)
(* is above 0, and every market_share_pct is 0 when that revenue is 0.     *)
C11_MarketShareSums ==
    resp.op = "market_share" =>
        LET rows == resp.body
            total == SumOver(rows, "revenue")
        IN /\ total > 0 => 2 * Abs(SumOver(rows, "market_share_pct") - 10000) <= Len(rows)
           /\ total = 0 => \A k \in DOMAIN rows : rows[k].market_share_pct = 0

(* three segments were returned whose rounded shares do not sum to 100.00 *)
C11_Witness ==
    /\ resp.op = "market_share"
    /\ Len(resp.body) = 3
    /\ SumOver(resp.body, "revenue") > 0
    /\ SumOver(resp.body, "market_share_pct") # 10000

(* segments were returned with a revenue of 0 in total *)
C11_ZeroWitness ==
    /\ resp.op = "market_share"
    /\ Len(resp.body) > 0
    /\ SumOver(resp.body, "revenue") = 0

(* C12: market_share returns no segment whose grouping value is the empty  *)
(* string (a null value never forms a segment), and the sales with an      *)
(* empty or null grouping value count in no share: the shares are taken of *)
(* the revenue of the sales with a non-empty grouping value.               *)
C12_NoEmptySegment ==
    resp.op = "market_share" =>
        LET column == GroupField(resp.args[3])
            valued == {i \in Matching(sales, resp.args[1], resp.args[2]) :
                          ~IsNull(sales[i][column]) /\ Val(sales[i][column]) # ""}
        IN /\ \A k \in DOMAIN resp.body : resp.body[k].segment # ""
           /\ SumOver(resp.body, "revenue") = OrZero(SqlSumTotal(sales, valued))

(* C13: whenever the revenue of the first half of the range is 0,          *)
(* calculate_growth_rate answers growth_rate_pct = 0, whatever the revenue *)
(* of the second half, and answers without an error.                       *)
C13_GrowthFromZero ==
    /\ \A range \in RepRanges :
          LET growth == GrowthRate(sales, range[1], range[2])
          IN growth.first_half_revenue = 0 => growth.growth_rate_pct = 0
    /\ (resp.op = "growth_rate" /\ resp.args[1] <= resp.args[2]) =>
          /\ resp.status = 200
          /\ resp.body.first_half_revenue = 0 => resp.body.growth_rate_pct = 0

(* a growth rate was answered for a range with no revenue in its first    *)
(* half and some in its second                                            *)
C13_Witness ==
    /\ resp.op = "growth_rate"
    /\ resp.body.first_half_revenue = 0
    /\ resp.body.second_half_revenue > 0
    /\ resp.body.growth_rate_pct = 0

Sign(n) == IF n > 0 THEN 1 ELSE IF n < 0 THEN 0 - 1 ELSE 0

(* the change computed from two quotients is (current - previous) /       *)
(* previous: its sign, without a division                                 *)
ChangeSign(current, previous) ==
    Sign(current.num * previous.den - previous.num * current.den) * Sign(previous.num)

(* what is said of one entry of a comparison *)
ChangeAsStated(change, current, previous) ==
    /\ previous.num = 0 => (change.change_pct = 0 /\ change.direction = "neutral")
    /\ previous.num # 0 =>
          change.direction = (IF ChangeSign(current, previous) > 0 THEN "up"
                              ELSE IF ChangeSign(current, previous) < 0 THEN "down"
                              ELSE "neutral")

ComparisonAsStated(comparisons, current_summary, previous_summary) ==
    /\ ChangeAsStated(comparisons.revenue, Rat(current_summary.total_revenue, 1),
                      Rat(previous_summary.total_revenue, 1))
    /\ ChangeAsStated(comparisons.transactions, Rat(current_summary.total_transactions, 1),
                      Rat(previous_summary.total_transactions, 1))
    /\ ChangeAsStated(comparisons.avg_order_value, current_summary.avg_order_value,
                      previous_summary.avg_order_value)

(* C14: compare_periods gives change_pct = 0 and direction "neutral" for   *)
(* each of revenue, transactions and avg_order_value whose previous value  *)
(* is 0, whatever the current value; for a previous value other than 0 the *)
(* direction is "up", "down" or "neutral" as the change (current -         *)
(* previous) / previous is above, below or equal to 0. Checked on the      *)
(* summaries of every two ranges and on the comparisons of every           *)
(* executive summary answered.                                             *)
C14_ComparePeriods ==
    /\ \A current \in RepRanges, previous \in RepRanges :
          LET current_summary == PerformanceSummary(sales, current[1], current[2])
              previous_summary == PerformanceSummary(sales, previous[1], previous[2])
          IN ComparisonAsStated(ComparePeriods(current_summary, previous_summary),
                                current_summary, previous_summary)
    /\ (resp.op = "executive_summary" /\ resp.status = 200) =>
          ComparisonAsStated(resp.body.comparisons, resp.body.summary,
                             PerformanceSummary(sales, resp.body.period.previous[1],
                                                resp.body.period.previous[2]))

(* an executive summary compared a revenue above 0 with a previous         *)
(* revenue of 0                                                            *)
C14_Witness ==
    /\ resp.op = "executive_summary"
    /\ resp.status = 200
    /\ resp.body.summary.total_revenue > 0
    /\ PerformanceSummary(sales, resp.body.period.previous[1],
                          resp.body.period.previous[2]).total_revenue = 0
    /\ resp.body.comparisons.revenue.direction = "neutral"

(* an executive summary compared two revenues other than 0 *)
C14_DirectionWitness ==
    /\ resp.op = "executive_summary"
    /\ resp.status = 200
    /\ resp.body.comparisons.revenue.direction = "up"
    /\ resp.body.comparisons.transactions.direction = "neutral"
    /\ resp.body.comparisons.transactions.value.num > 0

(* the column a metric orders by *)
MetricColumn(metric) == IF metric \in {"revenue", "quantity"} THEN metric ELSE "frequency"

(* C15: every top_products result has at most limit rows (no row for a     *)
(* limit below 1), no two rows for the same (product name, category)       *)
(* pair, and rows that do not increase in the requested metric, a metric   *)
(* outside {revenue, quantity, frequency} ordering by frequency.           *)
C15_TopProductsBounded ==
    (resp.op = "top_products" /\ resp.status = 200) =>
        LET rows == resp.body
            column == MetricColumn(resp.args[3])
        IN /\ Len(rows) <= (IF resp.args[4] > 0 THEN resp.args[4] ELSE 0)
           /\ \A j \in DOMAIN rows, k \in DOMAIN rows :
                 j < k => /\ <<rows[j].product_name, rows[j].product_category>>
                               # <<rows[k].product_name, rows[k].product_category>>
                          /\ rows[j][column] >= rows[k][column]

StatedBucket(period, ts) ==
    IF period = "day" THEN DateOf(ts)
    ELSE IF period = "week" THEN TruncTo(DaysPerWeek, ts)
    ELSE IF period = "month" THEN TruncTo(DaysPerMonth, ts)
    ELSE IF period = "quarter" THEN TruncTo(DaysPerQuarter, ts)
    ELSE IF period = "year" THEN TruncTo(DaysPerYear, ts)
    ELSE TruncTo(DaysPerMonth, ts)

(* C17: in every sales_performance answer two sales are in the same row    *)
(* exactly when their sale dates truncate to the same day, week, month,    *)
(* quarter or year, as the period says, and to the same month for a period *)
(* outside that set: the rows are those of the truncated dates.            *)
C17_PeriodGranularity ==
    (resp.op = "sales_performance" /\ resp.status = 200) =>
        {resp.body[k].period : k \in DOMAIN resp.body}
            = {StatedBucket(resp.args[3], sales[i].sale_date) :
                  i \in Matching(sales, resp.args[1], resp.args[2])}

----------------------------------------------------------------------------
(* Properties of the executive summary *)

(* C18: for every range with start <= end, the previous range an           *)
(* executive summary compares with has as many days as the requested       *)
(* range, ends on the day before start and shares no day with the          *)
(* requested range.                                                        *)
C18_PreviousRange ==
    (resp.op = "executive_summary" /\ resp.status = 200 /\ resp.args[1] <= resp.args[2]) =>
        LET previous == resp.body.period.previous
        IN /\ previous[2] - previous[1] + 1 = resp.args[2] - resp.args[1] + 1
           /\ previous[2] = resp.args[1] - 1
           /\ previous[2] < resp.args[1]

(* C19: every executive_summary request, on every ledger reached through   *)
(* create_sale and delete_sale and for every range, is answered: no        *)
(* division by zero is raised.                                             *)
C19_NoDivisionError ==
    resp.op = "executive_summary" => resp.status = 200

GrowthKinds == {"excellent_growth", "positive_growth", "revenue_declining"}

(* the rule of the revenue insight: growth = (current - previous) /        *)
(* max(previous, 1) * 100, compared with 10 and 0 without the division     *)
StatedGrowthKind(current_revenue, previous_revenue) ==
    LET base == IF previous_revenue >= 1 THEN previous_revenue ELSE 1
        growth_times_base == (current_revenue - previous_revenue) * 100
    IN IF growth_times_base > 10 * base THEN "excellent_growth"
       ELSE IF growth_times_base > 0 THEN "positive_growth"
       ELSE "revenue_declining"

(* C20: the insights of every executive summary answered hold exactly one  *)
(* revenue insight: "excellent growth" iff growth > 10, "positive growth"  *)
(* iff 0 < growth <= 10, "declining" iff growth <= 0, for growth =         *)
(* (current revenue - previous revenue) / max(previous revenue, 1) * 100;  *)
(* and the revenue insight derived from the summaries of every range and   *)
(* its previous range is the one of that rule.                             *)
C20_RevenueGrowthInsight ==
    /\ \A range \in RepRanges :
          LET previous == PreviousRange(range[1], range[2])
              current_summary == PerformanceSummary(sales, range[1], range[2])
              previous_summary == PerformanceSummary(sales, previous.prev_start,
                                                     previous.prev_end)
          IN RevenueGrowthInsight(current_summary, previous_summary).kind
                 = StatedGrowthKind(current_summary.total_revenue,
                                    previous_summary.total_revenue)
    /\ (resp.op = "executive_summary" /\ resp.status = 200) =>
          LET insights == resp.body.insights
              growth == {k \in DOMAIN insights : insights[k].kind \in GrowthKinds}
              previous_summary == PerformanceSummary(sales, resp.body.period.previous[1],
                                                     resp.body.period.previous[2])
          IN /\ Cardinality(growth) = 1
             /\ \A k \in growth :
                   insights[k].kind = StatedGrowthKind(resp.body.summary.total_revenue,
                                                       previous_summary.total_revenue)

(* an executive summary was answered for a growth of exactly 10%: a        *)
(* revenue of 11 after one of 10                                           *)
C20_Witness ==
    /\ resp.op = "executive_summary"
    /\ resp.status = 200
    /\ resp.body.summary.total_revenue = 11
    /\ PerformanceSummary(sales, resp.body.period.previous[1],
                          resp.body.period.previous[2]).total_revenue = 10
    /\ resp.body.insights[1].kind = "positive_growth"

(* executive summaries were answered with the two other revenue insights *)
C20_ExcellentWitness ==
    /\ resp.op = "executive_summary"
    /\ resp.status = 200
    /\ resp.body.insights[1].kind = "excellent_growth"

C20_DecliningWitness ==
    /\ resp.op = "executive_summary"
    /\ resp.status = 200
    /\ resp.body.insights[1].kind = "revenue_declining"

----------------------------------------------------------------------------
(* Properties of the listing and of the creation of sales *)

(* C29: every get_sales request with skip >= 0 and limit <= 1000 is        *)
(* answered without an error, with at most limit sales, all active, a      *)
(* total that is the number of the active sales matching the filters       *)
(* whatever the page, and page = floor(skip / limit) + 1.                  *)
C29_ListingPage ==
    resp.op = "get_sales" =>
        /\ resp.status = 200
        /\ Len(resp.body.sales) <= resp.args[2]
        /\ \A k \in DOMAIN resp.body.sales : resp.body.sales[k].is_active
        /\ resp.body.total = Cardinality({i \in DOMAIN sales :
               ListingFilter(sales[i], resp.args[3], resp.args[4])})
        /\ resp.body.page = (resp.args[1] \div resp.args[2]) + 1

(* C30: every create_sale request that passes the validation of its input  *)
(* (is not answered 422) appends one active row to the ledger, whatever    *)
(* the ledger holds, a sale of the same product code included.             *)
C30_CreateAppends ==
    (resp.op = "create_sale" /\ resp.status # 422) =>
        /\ resp.status = 200
        /\ resp.sale_id = Len(sales)
        /\ sales[resp.sale_id].is_active

----------------------------------------------------------------------------
(* Properties of the growth rate, the retention and the dashboard *)

(* C25: for a range with start <= end the two halves of                    *)
(* calculate_growth_rate partition it: first_half_revenue plus             *)
(* second_half_revenue is the total revenue that performance_summary       *)
(* reports for the same range.                                             *)
C25_HalvesPartition ==
    (resp.op = "growth_rate" /\ resp.status = 200 /\ resp.args[1] <= resp.args[2]) =>
        resp.body.first_half_revenue + resp.body.second_half_revenue
            = PerformanceSummary(sales, resp.args[1], resp.args[2]).total_revenue

(* a range with revenue in each half *)
C25_Witness ==
    /\ resp.op = "growth_rate"
    /\ resp.status = 200
    /\ resp.args[1] <= resp.args[2]
    /\ resp.body.first_half_revenue > 0
    /\ resp.body.second_half_revenue > 0

(* a sale at the midnight of the midpoint belongs to the second half *)
C25_MidpointWitness ==
    /\ resp.op = "growth_rate"
    /\ resp.args = <<0, 1>>
    /\ resp.body.first_half_revenue = 0
    /\ resp.body.second_half_revenue > 0
    /\ \E i \in DOMAIN sales : sales[i].is_active /\ sales[i].sale_date = Midnight(0)

(* C28: in every executive summary answered the revenue insight agrees     *)
(* with the KPI crescimento_receita: "excellent growth" or "positive       *)
(* growth" only when crescimento_receita > 0, "declining" only when        *)
(* crescimento_receita <= 0.                                               *)
C28_GrowthConsistent ==
    (resp.op = "executive_summary" /\ resp.status = 200) =>
        \A k \in DOMAIN resp.body.insights :
            LET kind == resp.body.insights[k].kind
                crescimento_receita == resp.body.kpis.crescimento_receita
            IN /\ kind \in {"excellent_growth", "positive_growth"} => crescimento_receita > 0
               /\ kind = "revenue_declining" => crescimento_receita <= 0

(* the customers of a half as the claim states them *)
StatedCustomers(from_tick, to_tick) ==
    {sales[i].pharmacy_name : i \in {j \in DOMAIN sales :
        /\ sales[j].is_active
        /\ sales[j].pharmacy_name # Null
        /\ from_tick <= sales[j].sale_date
        /\ sales[j].sale_date <= to_tick}}

(* C26: for a range of at least 60 days the retention analysis has         *)
(* retained + churned = total_first_half, retained + new =                 *)
(* total_second_half and 0 <= retention_rate <= 100 (0 when the first half *)
(* has no customer), the halves being the distinct non-null pharmacy names *)
(* of the active sales before and from the midpoint; for a shorter range   *)
(* it answers the error marker alone.                                      *)
C26_Retention ==
    resp.op = "customer_retention" =>
        LET start_date == resp.args[1]
            end_date == resp.args[2]
            mid_point == start_date + ((end_date - start_date) \div 2)
            r == resp.body
        IN IF end_date - start_date < 60
           THEN DOMAIN r = {"error"}
           ELSE /\ "error" \notin DOMAIN r
                /\ r.total_first_half
                     = Cardinality(StatedCustomers(Midnight(start_date), Midnight(mid_point) - 1))
                /\ r.total_second_half
                     = Cardinality(StatedCustomers(Midnight(mid_point), Midnight(end_date)))
                /\ r.retained_customers + r.churned_customers = r.total_first_half
                /\ r.retained_customers + r.new_customers = r.total_second_half
                /\ r.retention_rate.num >= 0
                /\ r.retention_rate.num <= 100 * r.retention_rate.den
                /\ r.total_first_half = 0 => r.retention_rate.num = 0

(* a range of 60 days with a retained and a churned customer *)
C26_Witness ==
    /\ resp.op = "customer_retention"
    /\ resp.args[2] - resp.args[1] >= 60
    /\ resp.body.retained_customers = 1
    /\ resp.body.churned_customers = 1
    /\ resp.body.retention_rate = Rat(50, 1)

(* a range of 59 days answered with the error marker, the ledger holding   *)
(* sales in the range                                                      *)
C26_ShortWitness ==
    /\ resp.op = "customer_retention"
    /\ resp.args[2] - resp.args[1] = 59
    /\ DOMAIN resp.body = {"error"}
    /\ Matching(sales, resp.args[1], resp.args[2]) # {}

(* a retention with a new customer and an empty first half *)
C26_NewWitness ==
    /\ resp.op = "customer_retention"
    /\ resp.args[2] - resp.args[1] >= 60
    /\ resp.body.total_first_half = 0
    /\ resp.body.new_customers > 0

----------------------------------------------------------------------------
(* Properties of the analytics endpoints *)

EndpointOps ==
    {"sales_performance", "market_share", "sales_trends", "top_products",
     "customer_analysis", "revenue_analysis", "dashboard_summary"}

(* the end of the range of the request answered: the end given, or the day *)
(* of the request                                                          *)
RequestEnd == IF IsNull(resp.args[2]) THEN resp.args[3] ELSE Val(resp.args[2])

(* the range an answer names: its period, and for the dashboard its        *)
(* current period                                                          *)
AnsweredRange ==
    IF resp.op = "dashboard_summary"
    THEN <<resp.body.current_period.start, resp.body.current_period.end>>
    ELSE resp.body.period

(* C21: an analytics endpoint given a start date after the end of its      *)
(* range rejects the request with a 4xx status before aggregating.         *)
C21_InvertedRangeRejected ==
    (/\ resp.op \in EndpointOps
     /\ ~IsNull(resp.args[1])
     /\ Val(resp.args[1]) > RequestEnd) =>
        resp.status \in 400..499

(* C22: every analytics endpoint resolves an omitted range the same way:   *)
(* end is the day of the request when omitted, and start is end - 30 days  *)
(* when omitted.                                                           *)
C22_DefaultRange ==
    (resp.op \in EndpointOps /\ resp.status = 200) =>
        /\ AnsweredRange[2] = RequestEnd
        /\ IsNull(resp.args[1]) => AnsweredRange[1] = RequestEnd - 30

(* C27: in dashboard_summary no sale is counted in both the current and    *)
(* the previous period.                                                    *)
C27_PeriodsDisjoint ==
    (resp.op = "dashboard_summary" /\ resp.status = 200) =>
        LET current == resp.body.current_period
            previous == resp.body.previous_period
        IN Matching(sales, current.start, current.end)
               \cap Matching(sales, previous.start, previous.end) = {}

----------------------------------------------------------------------------
(* Properties of the sessions and of the products table *)

(* C23: every session a request acquired through get_db is eventually      *)
(* closed, whether its handler returns or raises; no session is open once  *)
(* its request has completed; and the error of a handler that raised       *)
(* reaches the caller with the session already released.                   *)
C23_SessionReleased ==
    /\ \A c \in Clients : db[c].open ~> ~db[c].open
    /\ [](\A c \in Clients : db[c].pc = "idle" => ~db[c].open)
    /\ [][\A c \in Clients :
            (db[c].pc # "idle" /\ db'[c].pc = "idle" /\ ~IsNull(db[c].error)) =>
                /\ ~db[c].open
                /\ resp' = Reply(db[c].op, StatusOf(db[c].error), 0)
                /\ resp'.status >= 400]_vars

(* the session of a request whose handler raised has been closed, the      *)
(* error still on its way to the caller                                    *)
C23_Witness ==
    \E c \in Clients :
        /\ db[c].pc = "released"
        /\ ~IsNull(db[c].error)
        /\ ~db[c].open

(* the session of a request whose handler returned has been closed *)
C23_ReturnedWitness ==
    \E c \in Clients :
        /\ db[c].pc = "released"
        /\ IsNull(db[c].error)
        /\ ~db[c].open

C24_RaceWitness ==
    \E c \in Clients :
        /\ db[c].error = Some("IntegrityError")
        /\ ProductCodeTaken(products, Val(db[c].product).code)

====
